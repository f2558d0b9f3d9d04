SPECIFICATION Spec
CONSTANTS
  r1 = r1  r2 = r2  r3 = r3
  starter = starter  pro = pro  cS = cS  cP = cP
  Requests = {r1, r2}
  Users = {u1}
  Coupons = {cS}
  NoCoupon = NoCoupon  NoLimit = NoLimit  NoRow = NoRow
  Limits = {3}
  Expiries = {NoLimit}
  Tenants = {t1}
  Plans = {starter, pro}
  Price <- MCPrice
  CouponPlan <- MCCouponPlan
  CouponDays <- MCCouponDays
  GrantDays = {1}
  MaxTime = 2
  MaxAdminSteps = 1
  Serial = FALSE
PROPERTIES ImmediateMeansUncovered
