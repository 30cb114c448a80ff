SPECIFICATION Spec
CONSTANTS
  MaxText = 4
  MaxLen = 8
  Args <- MCArgs
INVARIANT TypeOK
INVARIANT EachPartOnce
INVARIANT PopRemovesLast
INVARIANT AncestorsStrip
INVARIANT ComparesParts
INVARIANT ExtensionOnly
INVARIANT PrefixToFirstDot
INVARIANT JoinsBehindSeparator
