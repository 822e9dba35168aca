SPECIFICATION Spec
CONSTANTS
  Names <- MCNames
  Uploads <- MCUploads
  FilesOf <- MCFilesOf
  Clients <- MCClients
  MaxSaves = 1
  MaxEvents = 2
INVARIANTS NoUseAfterFinalize ConfigIsServed SourcesAreAccounted
CHECK_DEADLOCK FALSE
