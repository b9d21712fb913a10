SPECIFICATION ServingSpec
CONSTANTS
  None = "none"
  Alphabet <- MCAlphabet
  Workspaces <- MCWorkspaces
  Calm <- MCCalm
  Editable <- MCEditable
  MaxRowEdits = 1
  AllRows = {"n1", "n2", "n3", "n4", "n5", "auto", "proxy", "direct", "reject", "asia", "work", "stream",
             "r1", "r2", "r3", "r4", "r5", "s1", "s2", "s3"}
INVARIANT SelectedGroupDecides
