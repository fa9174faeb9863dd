SPECIFICATION Spec
CONSTANTS
  a1 = a1
  a2 = a2
  a3 = a3
  f1 = f1
  f2 = f2
  Files = {f1, f2}
  NoFile = NoFile
  Accounts = {a1, a2, a3}
  Nobody = Nobody
  Initially <- OneStored
  Kind <- EachKind
  Rotates = {TRUE}
  Failures = {"network", "identity", "save"}
  HostActs = {"refresh", "edit", "delete", "import"}
  MaxIssued = 3
  MaxEdits = 1
INVARIANT FilesNotMixed
INVARIANT StaysRenewable
INVARIANT ChangesStand
INVARIANT HostKeysPreserved
