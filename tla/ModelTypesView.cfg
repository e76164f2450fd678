\* An edit handled during the parse of a longer list of files.
SPECIFICATION Spec
\* MaxOpens ends the session: with every project closed nothing more happens
CHECK_DEADLOCK FALSE
CONSTANTS
  Projects = {p1}
  Files = {f1, f2}
  Handlers = {h1, h2}
  MaxVersion = 2
  MaxBuilders = 2
  MaxOpens = 1
  EditUnparsed = TRUE
  Outcomes = {"parsed"}
INVARIANT AllListedStored
