SPECIFICATION Spec
CONSTANTS
  a = a
  b = b
  c = c
  e = e
  jan = jan
  feb = feb
  mar = mar
  Sets = {d}
  Comps = {a, b, c, e}
  Months = {jan, feb, mar}
  MonthOf <- InMonth
  Gauges <- AllOrOne
  Null = Null
INVARIANT
  GaugeIsHonoured
