\* Three rows of two columns, which fill and wrap, and words of the machine.
CONSTANTS
  Width = 16
  Operands = {0, 1, 2, 9, 10, 2047, 2048, 32767, 32768, 65534, 65535}
  Amounts = {0, 1, 7, 15, 16}
  Chars = {120, 121}
  Numbers = {0, 10, 907, 65535}
  max_cols = 1
  max_rows = 3
SPECIFICATION ScreenSpec
INVARIANTS ShowsLastLines ResultsRight
PROPERTIES ClearsAll PrintsDecimal
