SPECIFICATION Spec
CONSTANTS
  r1 = r1  r2 = r2  r3 = r3
  starter = starter  pro = pro  cS = cS  cP = cP
  Requests = {r1, r2, r3}
  Users = {u1, u2}
  Coupons = {cS}
  NoCoupon = NoCoupon  NoLimit = NoLimit  NoRow = NoRow
  Limits = {1, 2}
  Expiries = {0, NoLimit}
  Tenants = {t1}
  Plans = {starter, pro}
  Price <- MCPrice
  CouponPlan <- MCCouponPlan
  CouponDays <- MCCouponDays
  GrantDays = {}
  MaxTime = 1
  MaxAdminSteps = 3
  Serial = FALSE
INVARIANTS TypeOK BooksBalance
PROPERTIES LedgerImplemented
SYMMETRY Symmetry
