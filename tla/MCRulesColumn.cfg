SPECIFICATION Spec
CONSTANTS
  p1 = p1
  Process = {p1}
  rel1 = rel1
  rel2 = rel2
  Release = {rel1, rel2}
  Supported = 4
INVARIANT RulesUsable
