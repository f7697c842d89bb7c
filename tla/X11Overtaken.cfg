CONSTANTS
  Copies = {c1, c2}
  Refusing = {}
  Large = {c1}
  Us = us
  Nobody = nobody
  MaxOwn = 0
SPECIFICATION InOrderSpec
INVARIANT ClipboardChangesAreNew
\* The applications copy once each.
CHECK_DEADLOCK FALSE
