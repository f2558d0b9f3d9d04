SPECIFICATION FairSpec
CONSTANTS
  r1 = r1  r2 = r2  r3 = r3
  starter = starter  pro = pro  cS = cS  cP = cP
  Requests = {r1, r2, r3}
  Users = {u1}
  Coupons = {cS, cP}
  NoCoupon = NoCoupon  NoLimit = NoLimit  NoRow = NoRow
  Limits = {NoLimit}
  Expiries = {NoLimit}
  Tenants = {t1}
  Plans = {starter, pro}
  Price <- MCPrice
  CouponPlan <- MCCouponPlan
  CouponDays <- MCCouponDays
  GrantDays = {}
  MaxTime = 1
  MaxAdminSteps = 2
  Serial = FALSE
PROPERTIES RedeemEnds
