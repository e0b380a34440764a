SPECIFICATION Spec
CONSTANTS
  Requests = {1, 2, 3}
  Orgs = {0, 1}
  Repos <- MCRepos
  Integrations = {7}
  DefaultProvider = "github"
  Paths = {a, b}
  None = None
PROPERTY RemovedStaysOut
CONSTRAINTS ArriveInOrder Either OneOdd FewAtTheEnd
SYMMETRY PathsAlike
