SPECIFICATION Spec
CONSTANTS
  Calls = {c1, c2}
  Root <- AppRoot
  Rels <- Paths
  Texts = {"x"}
  Before <- AppTree
  LinkTo <- AppLinks
  Shell <- ShellOf
SYMMETRY AnyCall
INVARIANT TypeOK
PROPERTIES SuccessIsDone Confined
