----------------------------- MODULE ProxyCheck -----------------------------
(***************************************************************************)
(* test_egress_proxy (service/egress_proxy/proxies.py): a tunnel through   *)
(* an HTTP, HTTPS or SOCKS5 proxy, TLS and a request through it.  What the *)
(* proxy and the target answer is external.                                *)
(*                                                                         *)
(*   chk    the test: the proxy, the step, the sockets it holds (raw, or   *)
(*          wrapped in TLS: wrapping takes the inner socket over), what    *)
(*          the proxy asked for and granted, the result                    *)
(***************************************************************************)
EXTENDS Naturals

VARIABLE chk

Proxies == [type : {"http", "https", "socks5"}, account : {"none", "short", "long"}]   \* long: over 255 bytes

ProxyCheckInit ==
  chk \in [proxy : Proxies, pc : {"connect"}, open : BOOLEAN \ {TRUE}, auth : {"none"}, tunnel : {FALSE}, result : {"none"}]

On(l) == chk.pc = l
ProxyStep(l, r) == chk' = [chk EXCEPT !.pc = l, !.open = r]

(* Mutant: a proxy that says no leaves its socket. *)
fails_open(result) == chk' = [chk EXCEPT !.pc = "done", !.result = result]

(* Every failure closes the socket on its way out. *)
fails(result) == chk' = [chk EXCEPT !.pc = "done", !.open = FALSE, !.result = result]

(* socket.create_connection *)
proxy_connects ==
  /\ On("connect")
  /\ \/ ProxyStep(CASE chk.proxy.type = "https" -> "wrap" [] chk.proxy.type = "http" -> "request" [] OTHER -> "methods", TRUE)
     \/ fails("failed")

(* _connect_http_proxy: TLS to the proxy, CONNECT, a 2xx answer. *)
proxy_wraps == On("wrap") /\ (ProxyStep("request", TRUE) \/ fails("failed"))

connect_answers(status) ==
  /\ On("request")
  /\ IF status \in 200..299 THEN chk' = [chk EXCEPT !.pc = "tls", !.tunnel = TRUE] ELSE fails("failed")

(* _connect_socks5_proxy: 0 no authentication, 2 password, 255 none fits.  *)
socks_method(m) ==
  /\ On("methods")
  /\ CASE m = 0 -> chk' = [chk EXCEPT !.pc = "socks"]
       [] m = 2 -> IF chk.proxy.account = "long" THEN fails("failed")
                   ELSE chk' = [chk EXCEPT !.pc = "password", !.auth = "asked"]
       [] OTHER -> fails("failed")

(* Mutant: the answer to the password is not looked at. *)
Accepts_always(code) == TRUE

Accepts(code) == code = 0

socks_password(code) ==
  /\ On("password")
  /\ IF Accepts(code) THEN chk' = [chk EXCEPT !.pc = "socks", !.auth = IF code = 0 THEN "granted" ELSE "denied"]
     ELSE fails("failed")

(* The reply and an address of one of three types. *)
socks_connect(code, atyp) ==
  /\ On("socks")
  /\ IF code = 0 /\ atyp \in {1, 3, 4} THEN chk' = [chk EXCEPT !.pc = "tls", !.tunnel = TRUE] ELSE fails("failed")

(* TLS to the target through the tunnel, a request, the status line.  Over *)
(* an https proxy the second wrapping detaches the first, so a success     *)
(* there is more than the code does.                                       *)
target_wraps == On("tls") /\ (ProxyStep("get", TRUE) \/ fails("failed"))

target_answers(status) ==
  /\ On("get")
  /\ fails(IF status \in 200..399 THEN "success" ELSE "refused")

(* The peer closes, is silent for EGRESS_PROXY_TEST_TIMEOUT_SECONDS, or    *)
(* sends something that cannot be read.                                    *)
peer_fails ==
  /\ chk.pc \in {"request", "methods", "password", "socks", "get"}
  /\ fails("failed")

ProxyCheckNext ==
  \/ proxy_connects \/ proxy_wraps \/ target_wraps \/ peer_fails
  \/ \E s \in {100, 200, 204, 302, 407, 502} : connect_answers(s) \/ target_answers(s)
  \/ \E m \in {0, 1, 2, 255} : socks_method(m)
  \/ \E c \in {0, 1} : socks_password(c) \/ \E a \in {1, 2, 3, 4} : socks_connect(c, a)

ProxyCheckSpec == ProxyCheckInit /\ [][ProxyCheckNext]_chk

-----------------------------------------------------------------------------
(* However the proxy or the target answers, a test that is over holds no   *)
(* socket, and one that succeeded went through a tunnel the proxy granted, *)
(* after the password if it asked for one (_test_proxy_connectivity_sync). *)
CheckedIsTunneled ==
  chk.pc = "done" => ~chk.open /\ (chk.result = "success" => chk.tunnel /\ chk.auth \in {"none", "granted"})
=============================================================================
