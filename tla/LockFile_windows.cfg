\* lockfile_windows.go: three windows contend for one container.
CONSTANTS
  Procs = {w1, w2, w3}
  Inodes = {f1, f2, f3}
  Nil = Nil
  UnlinksOpenFiles = FALSE
SPECIFICATION LockFileSpec
PROPERTIES IsMutex RefusedOnlyWhileHeld
