\* One project with two files, three handlers at once, every outcome of a parse.
SPECIFICATION Spec
\* MaxOpens ends the session: with every project closed nothing more happens
CHECK_DEADLOCK FALSE
SYMMETRY Symm
CONSTANTS
  Projects = {p1}
  Files = {f1, f2}
  Handlers = {h1, h2, h3}
  MaxVersion = 2
  MaxBuilders = 3
  MaxOpens = 1
  EditUnparsed = TRUE
  Outcomes = {"parsed", "located", "unreadable", "dropped"}
INVARIANTS TypeOK OnlyListedFiles
PROPERTY NoOlderAnswer
