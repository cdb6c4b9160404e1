SPECIFICATION Spec
CONSTANTS
  r1 = r1  r2 = r2  c1 = c1  c2 = c2  c3 = c3  b1 = b1  b2 = b2
  x1 = x1  x2 = x2  x3 = x3  x4 = x4  ali = ali  Ali = Ali  Zoe = Zoe
  Requests = {r1, r2}
  Names = {ali, Ali, Zoe}
  Capital <- Capitals
  Typed = {Ali, Zoe}
  Called = {Ali}
  Amounts = {1}
  Customers = {c1, c2}
  Bills = {b1}
  Records = {x1, x2, x3}
  Connections = 1
  None = None
SYMMETRY Symmetry
 
INVARIANT MoneyHasOwner
 
 
CHECK_DEADLOCK FALSE
