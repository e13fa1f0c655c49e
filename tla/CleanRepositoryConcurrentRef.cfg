SPECIFICATION Spec
CONSTANTS
    f1 = f1  f2 = f2  f3 = f3  f4 = f4  f5 = f5  f6 = f6  f7 = f7  f8 = f8
    a = a  b = b
    Files <- MCFiles
    Pkgs <- MCPkgs
    FileDir <- MCFileDir
    FileKind <- MCFileKind
    FilePkg <- MCFilePkg
    DryRunModes <- NoDryRun
    Writers = TRUE
    ArchiveDirChoices <- MCArchiveDirChoices
PROPERTY NeverArchiveReferenced
CHECK_DEADLOCK FALSE
