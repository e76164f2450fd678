\* Two projects sharing a file that is edited after its first parse, opened twice each;
\* parses work, and every handler ends under the fairness of Spec.
SPECIFICATION Spec
\* MaxOpens ends the session: with every project closed nothing more happens
CHECK_DEADLOCK FALSE
CONSTANTS
  Projects = {p1, p2}
  Files = {f1}
  Handlers = {h1, h2}
  MaxVersion = 3
  MaxBuilders = 2
  MaxOpens = 2
  EditUnparsed = FALSE
  Outcomes = {"parsed"}
INVARIANTS GuardCountsWork FreshWhenQuiet
PROPERTY HandlersFinish
