SPECIFICATION Spec
CONSTANTS
  Strategies = {s1, s2}
  Marks = {on}
  Editors = {e1, e2}
  Absent = Absent
  Invalid = Invalid
  NoFile = NoFile
  Partial = Partial
  Garbled = Garbled
SYMMETRY Symmetric
INVARIANTS EditIsAtomic AnsweredIsServed
