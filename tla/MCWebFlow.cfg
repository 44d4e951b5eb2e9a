\* Two pages, three profiles, at most two runs of a page.
CONSTANTS
  p1 = p1
  p2 = p2
  Pages = {p1, p2}
  Readers = {p1}
  Dirs = {1, 2}
  Views = {"summary", "graph"}
  Profiles <- MCProfiles
  Users <- MCUsers
SPECIFICATION Spec
INVARIANTS
  RunsAreApart
  AnswerIsAsAsked
  DoneIsWhole
  ShownIsLastResult
PROPERTY
  ButtonComesBack
