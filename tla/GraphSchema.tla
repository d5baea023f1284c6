----------------------------- MODULE GraphSchema -----------------------------
(***************************************************************************)
(* The types the GraphQL server was generated for (generated.go).          *)
(*                                                                         *)
(* A field says what its value is, whether a null of it is an error,       *)
(* whether a resolver has to be asked for it and which directive stands in *)
(* front of that resolver.  Next to the fields stand the executors: for    *)
(* each type, the fields whose null makes the whole object null.  The two  *)
(* are generated in different places and have to agree.                    *)
(***************************************************************************)
EXTENDS TLC

Field(to, many, required) ==
  [to |-> to, many |-> many, required |-> required, asks |-> FALSE, by |-> "anyone"]

\* Scalars and enums, and the fields that hold nothing else.
Value == Field("scalar", FALSE, TRUE)
Option == Field("scalar", FALSE, FALSE)
Given(names) == [f \in names |-> Value]
Maybe(names) == [f \in names |-> Option]

\* Objects and lists of objects; the elements of every list are required.
One(type) == Field(type, FALSE, TRUE)
Perhaps(type) == Field(type, FALSE, FALSE)
Many(type) == Field(type, TRUE, TRUE)
Some(type) == Field(type, TRUE, FALSE)

\* A field with a resolver, and one with a directive in front of it.
Ask(field) == [field EXCEPT !.asks = TRUE]
By(directive, field) == [Ask(field) EXCEPT !.by = directive]

-----------------------------------------------------------------------------
\* Addresses.
AddressPlace ==
  Given({"id", "postcode", "municipalityName", "streetName", "houseNumber"})
  @@ Maybe({"boxNumber"})
AddressPosition == Given({"distance"}) @@ Maybe({"lat", "lng", "duration"})

SuggestionText == Given({"placeId", "description", "mainText", "secondaryText"})

ChoiceTranslationText == Given({"locale", "name"})

-----------------------------------------------------------------------------
\* Coupons.
CouponValue ==
  Given({"id", "code", "discountType", "discountValue"})
  @@ Maybe({"minOrderAmount", "maxUses"})
CouponLife ==
  Given({"usedCount", "isActive", "status", "createdAt"})
  @@ Maybe({"maxUsesPerUser", "validFrom", "validUntil"})

ValidationResult == Given({"valid", "discountAmount"}) @@ Maybe({"errorMessage"})

-----------------------------------------------------------------------------
\* Customers' statistics.
CustomerIdentity ==
  Given({"userId", "firstName", "lastName", "email", "registeredAt"})
  @@ Maybe({"phoneNumber"})
CustomerTotals ==
  Given({"totalOrders", "totalAmount", "averageOrderAmount", "firstOrderDate",
      "lastOrderDate", "preferredOrderType"})
CustomerCounts == Given({"deliveryCount", "pickupCount"})

StatsLinks ==
  "summary" :> One("CustomerStatsSummary") @@ "customers" :> Many("CustomerStats")

StatsTotals ==
  Given({"totalCustomers", "totalRevenue", "averageOrderValue", "totalOrders"})

-----------------------------------------------------------------------------
\* Schedules.
DayHours == Given({"open", "close"}) @@ Maybe({"dinnerOpen", "dinnerClose"})

-----------------------------------------------------------------------------
\* Orders.
OrderKeys ==
  Given({"id", "createdAt", "updatedAt", "status", "type", "isOnlinePayment"})
OrderAmounts ==
  Given({"discountAmount", "totalPrice"})
  @@ Maybe({"deliveryFee", "transactionFee", "preferredReadyTime",
      "estimatedReadyTime"})
OrderRemarks ==
  Maybe({"addressExtra", "orderNote", "couponCode", "cancellationReason",
      "cashPaymentAmount"})
  @@ "orderExtra" :> Ask(Option)
OrderLinks ==
  "address" :> Ask(Perhaps("Address")) @@ "customer" :> Ask(Perhaps("User"))
  @@ "payment" :> Ask(Perhaps("Payment")) @@ "items" :> Ask(Many("OrderItem"))
OrderDisplay ==
  "isManualAddress" :> Ask(Value)
  @@ "statusHistory" :> By("admin", Many("OrderStatusHistory"))
  @@ "displayCustomerName" :> Ask(Value) @@ "displayAddress" :> Ask(Value)

HistoryLinks == "orders" :> Many("Order") @@ "summary" :> One("OrderHistorySummary")

HistoryTotals == Given({"totalOrders", "totalRevenue", "averageOrder"})

ItemLine ==
  Given({"productID", "unitPrice", "quantity", "totalPrice", "vatRateApplied"})
  @@ "product" :> Ask(One("Product"))
ItemChoice ==
  Maybe({"choiceId"}) @@ "choice" :> Ask(Perhaps("ProductChoice"))
  @@ "selections" :> Many("OrderItemSelection")

SelectionLine ==
  Given({"groupId", "choiceId", "quantity"})
  @@ "group" :> One("ProductChoiceGroup") @@ "choice" :> One("ProductChoice")

StatusChange == Given({"id", "status", "changedAt"})

-----------------------------------------------------------------------------
\* Payments.
PaymentKeys ==
  Given({"id", "molliePaymentId", "status"})
  @@ Maybe({"resource", "description", "cancelUrl"})
PaymentAccount ==
  Given({"orderId"})
  @@ Maybe({"webhookUrl", "country_code", "restrictPaymentMethodsToCountry",
      "profileId", "settlementId"})
PaymentMode ==
  Given({"isCancelable"})
  @@ Maybe({"mode", "locale", "method", "metadata", "links"})
PaymentDates ==
  Given({"createdAt"})
  @@ Maybe({"authorizedAt", "paidAt", "canceledAt", "expiresAt", "expiredAt"})
PaymentAmounts ==
  Maybe({"failedAt", "amount", "amountRefunded", "amountRemaining",
      "amountCaptured", "amountChargedBack", "settlementAmount"})

-----------------------------------------------------------------------------
\* Products.
ProductKeys ==
  Given({"createdAt", "id", "isAvailable", "isDiscountable", "isHalal"})
  @@ Maybe({"code"})
ProductFlags ==
  Given({"isLunchOnly", "isSpicy", "isVegetarian", "isVisible", "price"})
  @@ Maybe({"pieceCount"})
ProductText == Given({"slug", "vatCategory", "name"}) @@ Maybe({"description"})
ProductLinks ==
  "category" :> Ask(One("ProductCategory"))
  @@ "choices" :> Ask(Many("ProductChoice"))
  @@ "choiceGroups" :> Ask(Many("ProductChoiceGroup"))
  @@ "translations" :> Ask(Many("Translation"))

CategoryFields ==
  Given({"id", "order", "slug", "name"}) @@ "products" :> Ask(Many("Product"))
  @@ "translations" :> Ask(Many("Translation"))

ChoiceKeys ==
  Given({"id", "productId", "choiceGroupId", "priceModifier", "sortOrder"})
ChoiceText == Given({"name"}) @@ "translations" :> Many("ChoiceTranslation")

GroupLimits ==
  Given({"id", "productId", "minSelections", "maxSelections", "sortOrder"})
GroupLinks ==
  Given({"name"}) @@ "translations" :> Many("ChoiceTranslation")
  @@ "choices" :> Ask(Many("ProductChoice"))

-----------------------------------------------------------------------------
\* The restaurant.
ConfigHours ==
  Given({"orderingEnabled", "openingHours", "preparationMinutes"})
  @@ Maybe({"orderingHours"}) @@ "isCurrentlyOpen" :> Ask(Value)
  @@ "isOrderingCurrentlyOpen" :> Ask(Value)
ConfigSlots ==
  Given({"updatedAt"}) @@ "availableSlotsToday" :> Ask(Many("TimeSlot"))
  @@ "nextOpeningAt" :> Ask(Option)

OverrideFields ==
  Given({"date", "closed", "updatedAt"}) @@ Maybe({"note"})
  @@ "schedule" :> Perhaps("DaySchedule")

SlotFields == Given({"label", "value", "isLunchOnlyAllowed"})

TranslationText == Given({"language", "name"}) @@ Maybe({"description"})

-----------------------------------------------------------------------------
\* Users.
UserName ==
  Given({"id", "email", "firstName", "lastName", "isAdmin"})
  @@ Maybe({"phoneNumber"})
UserSettings ==
  Given({"notifyMarketing", "notifyOrderUpdates"})
  @@ Maybe({"deletionRequestedAt"}) @@ "address" :> Ask(Perhaps("Address"))
  @@ "orders" :> Ask(Some("Order"))

-----------------------------------------------------------------------------
\* Queries.
AddressQueries ==
  "autocompleteAddresses" :> Ask(Many("AddressSuggestion"))
  @@ "resolveAddress" :> Ask(One("Address"))
CouponQueries ==
  "validateCoupon" :> By("auth", One("CouponValidation"))
  @@ "coupons" :> By("admin", Many("Coupon"))
  @@ "coupon" :> By("admin", One("Coupon"))
OrderQueries ==
  "orders" :> By("staff", Many("Order")) @@ "order" :> By("staff", One("Order"))
HistoryQueries ==
  "customerOrders" :> By("admin", Many("Order"))
  @@ "orderHistory" :> By("admin", One("OrderHistoryResponse"))
MyOrderQueries ==
  "myOrders" :> By("auth", Many("Order")) @@ "myOrder" :> By("auth", One("Order"))
ProductQueries ==
  "product" :> Ask(One("Product")) @@ "products" :> Ask(Many("Product"))
  @@ "productCategory" :> Ask(One("ProductCategory"))
  @@ "productCategories" :> Ask(Many("ProductCategory"))
RestaurantQueries ==
  "restaurantConfig" :> Ask(One("RestaurantConfig"))
  @@ "scheduleOverrides" :> By("admin", Many("ScheduleOverride"))
UserQueries ==
  "me" :> By("auth", One("User"))
  @@ "customerStats" :> By("admin", One("CustomerStatsResponse"))

-----------------------------------------------------------------------------
\* Mutations.
CouponMutations ==
  "createCoupon" :> By("admin", One("Coupon"))
  @@ "updateCoupon" :> By("admin", One("Coupon"))
OrderMutations ==
  "createOrder" :> By("auth", One("Order"))
  @@ "updateOrder" :> By("staff", One("Order"))
DeviceMutations ==
  "registerDeviceToken" :> By("auth", Value)
  @@ "unregisterDeviceToken" :> By("auth", Value)
LiveMutations ==
  "registerLiveActivityToken" :> By("auth", Value)
  @@ "updateMyOrdersLanguage" :> By("auth", Value)
PaymentMutations == "updatePaymentStatus" :> By("admin", One("Payment"))
ProductMutations ==
  "createProduct" :> By("admin", One("Product"))
  @@ "updateProduct" :> By("admin", One("Product"))
ChoiceGroupMutations ==
  "createProductChoiceGroup" :> By("admin", One("ProductChoiceGroup"))
  @@ "updateProductChoiceGroup" :> By("admin", One("ProductChoiceGroup"))
ChoiceMutations ==
  "deleteProductChoiceGroup" :> By("admin", Value)
  @@ "createProductChoice" :> By("admin", One("ProductChoice"))
ChoiceEditMutations ==
  "updateProductChoice" :> By("admin", One("ProductChoice"))
  @@ "deleteProductChoice" :> By("admin", Value)
OpeningMutations ==
  "updateOrderingEnabled" :> By("admin", One("RestaurantConfig"))
  @@ "updateOpeningHours" :> By("admin", One("RestaurantConfig"))
OrderingMutations ==
  "updateOrderingHours" :> By("admin", One("RestaurantConfig"))
  @@ "updatePreparationMinutes" :> By("admin", One("RestaurantConfig"))
OverrideMutations ==
  "upsertScheduleOverride" :> By("admin", One("ScheduleOverride"))
  @@ "deleteScheduleOverride" :> By("admin", Value)
UserMutations ==
  "updateMe" :> By("auth", One("User")) @@ "deleteMe" :> By("auth", Value)

-----------------------------------------------------------------------------
\* Subscriptions.
ShopSubscriptions ==
  "couponUpdated" :> By("admin", One("Coupon"))
  @@ "orderCreated" :> By("staff", One("Order"))
  @@ "orderUpdated" :> By("staff", One("Order"))
OpenSubscriptions ==
  "myOrderUpdated" :> By("auth", One("Order"))
  @@ "productUpdated" :> Ask(One("Product"))
  @@ "restaurantConfigUpdated" :> Ask(One("RestaurantConfig"))
  @@ "scheduleOverridesUpdated" :> Ask(Many("ScheduleOverride"))

-----------------------------------------------------------------------------
\* The fields of every type.
FieldsOf ==
  [Address |-> AddressPlace @@ AddressPosition,
   AddressSuggestion |-> SuggestionText,
   ChoiceTranslation |-> ChoiceTranslationText,
   Coupon |-> CouponValue @@ CouponLife,
   CouponValidation |-> ValidationResult,
   CustomerStats |-> CustomerIdentity @@ CustomerTotals @@ CustomerCounts,
   CustomerStatsResponse |-> StatsLinks,
   CustomerStatsSummary |-> StatsTotals,
   DaySchedule |-> DayHours,
   Order |-> OrderKeys @@ OrderAmounts @@ OrderRemarks @@ OrderLinks @@
      OrderDisplay,
   OrderHistoryResponse |-> HistoryLinks,
   OrderHistorySummary |-> HistoryTotals,
   OrderItem |-> ItemLine @@ ItemChoice,
   OrderItemSelection |-> SelectionLine,
   OrderStatusHistory |-> StatusChange,
   Payment |-> PaymentKeys @@ PaymentAccount @@ PaymentMode @@ PaymentDates @@
      PaymentAmounts,
   Product |-> ProductKeys @@ ProductFlags @@ ProductText @@ ProductLinks,
   ProductCategory |-> CategoryFields,
   ProductChoice |-> ChoiceKeys @@ ChoiceText,
   ProductChoiceGroup |-> GroupLimits @@ GroupLinks,
   RestaurantConfig |-> ConfigHours @@ ConfigSlots,
   ScheduleOverride |-> OverrideFields,
   TimeSlot |-> SlotFields,
   Translation |-> TranslationText,
   User |-> UserName @@ UserSettings,
   Query |-> AddressQueries @@ CouponQueries @@ OrderQueries @@ HistoryQueries @@
      MyOrderQueries @@ ProductQueries @@ RestaurantQueries @@ UserQueries,
   Mutation |-> CouponMutations @@ OrderMutations @@ DeviceMutations @@
      LiveMutations @@ PaymentMutations @@ ProductMutations @@ ChoiceGroupMutations
      @@ ChoiceMutations @@ ChoiceEditMutations @@ OpeningMutations @@
      OrderingMutations @@ OverrideMutations @@ UserMutations,
   Subscription |-> ShopSubscriptions @@ OpenSubscriptions]
-----------------------------------------------------------------------------
\* The executors: the fields whose null makes the object null.  What a
\* subscription streams is wrapped without a look at it.
AddressVoids ==
  {"id", "postcode", "municipalityName", "streetName", "houseNumber", "distance"}
AddressSuggestionVoids == {"placeId", "description", "mainText", "secondaryText"}
ChoiceTranslationVoids == {"locale", "name"}
CouponVoids ==
  {"id", "code", "discountType", "discountValue", "usedCount", "isActive", "status",
   "createdAt"}
CouponValidationVoids == {"valid", "discountAmount"}
CustomerStatsVoids ==
  {"userId", "firstName", "lastName", "email", "registeredAt", "totalOrders",
   "totalAmount", "averageOrderAmount", "firstOrderDate", "lastOrderDate",
   "preferredOrderType", "deliveryCount", "pickupCount"}
CustomerStatsResponseVoids == {"summary", "customers"}
CustomerStatsSummaryVoids ==
  {"totalCustomers", "totalRevenue", "averageOrderValue", "totalOrders"}
DayScheduleVoids == {"open", "close"}
MutationVoids ==
  {"createCoupon", "updateCoupon", "createOrder", "updateOrder",
   "registerDeviceToken", "unregisterDeviceToken", "registerLiveActivityToken",
   "updateMyOrdersLanguage", "updatePaymentStatus", "createProduct",
   "updateProduct", "createProductChoiceGroup", "updateProductChoiceGroup",
   "deleteProductChoiceGroup", "createProductChoice", "updateProductChoice",
   "deleteProductChoice", "updateOrderingEnabled", "updateOpeningHours",
   "updateOrderingHours", "updatePreparationMinutes", "upsertScheduleOverride",
   "deleteScheduleOverride", "updateMe", "deleteMe"}
OrderVoids ==
  {"id", "createdAt", "updatedAt", "status", "type", "isOnlinePayment",
   "discountAmount", "totalPrice", "items", "isManualAddress", "statusHistory",
   "displayCustomerName", "displayAddress"}
OrderHistoryResponseVoids == {"orders", "summary"}
OrderHistorySummaryVoids == {"totalOrders", "totalRevenue", "averageOrder"}
OrderItemVoids ==
  {"product", "productID", "unitPrice", "quantity", "totalPrice", "vatRateApplied",
   "selections"}
OrderItemSelectionVoids == {"groupId", "choiceId", "quantity", "group", "choice"}
OrderStatusHistoryVoids == {"id", "status", "changedAt"}
PaymentVoids ==
  {"id", "molliePaymentId", "status", "orderId", "isCancelable", "createdAt"}
ProductVoids ==
  {"createdAt", "id", "isAvailable", "isDiscountable", "isHalal", "isLunchOnly",
   "isSpicy", "isVegetarian", "isVisible", "price", "slug", "vatCategory", "name",
   "category", "choices", "choiceGroups", "translations"}
ProductCategoryVoids == {"id", "order", "slug", "name", "products", "translations"}
ProductChoiceVoids ==
  {"id", "productId", "choiceGroupId", "priceModifier", "sortOrder", "name",
   "translations"}
ProductChoiceGroupVoids ==
  {"id", "productId", "minSelections", "maxSelections", "sortOrder", "name",
   "translations", "choices"}
QueryVoids ==
  {"autocompleteAddresses", "resolveAddress", "validateCoupon", "coupons", "coupon",
   "orders", "order", "customerOrders", "orderHistory", "myOrders", "myOrder",
   "product", "products", "productCategory", "productCategories",
   "restaurantConfig", "scheduleOverrides", "me", "customerStats"}
RestaurantConfigVoids ==
  {"orderingEnabled", "openingHours", "preparationMinutes", "isCurrentlyOpen",
   "isOrderingCurrentlyOpen", "availableSlotsToday", "updatedAt"}
ScheduleOverrideVoids == {"date", "closed", "updatedAt"}
SubscriptionVoids == {}
TimeSlotVoids == {"label", "value", "isLunchOnlyAllowed"}
TranslationVoids == {"language", "name"}
UserVoids ==
  {"id", "email", "firstName", "lastName", "isAdmin", "notifyMarketing",
   "notifyOrderUpdates"}

\* The executor of every type.
VoidsOf ==
  [Address |-> AddressVoids, AddressSuggestion |-> AddressSuggestionVoids,
   ChoiceTranslation |-> ChoiceTranslationVoids, Coupon |-> CouponVoids,
   CouponValidation |-> CouponValidationVoids, CustomerStats |->
   CustomerStatsVoids, CustomerStatsResponse |-> CustomerStatsResponseVoids,
   CustomerStatsSummary |-> CustomerStatsSummaryVoids, DaySchedule |->
   DayScheduleVoids, Mutation |-> MutationVoids, Order |-> OrderVoids,
   OrderHistoryResponse |-> OrderHistoryResponseVoids, OrderHistorySummary |->
   OrderHistorySummaryVoids, OrderItem |-> OrderItemVoids, OrderItemSelection |->
   OrderItemSelectionVoids, OrderStatusHistory |-> OrderStatusHistoryVoids, Payment
   |-> PaymentVoids, Product |-> ProductVoids, ProductCategory |->
   ProductCategoryVoids, ProductChoice |-> ProductChoiceVoids, ProductChoiceGroup
   |-> ProductChoiceGroupVoids, Query |-> QueryVoids, RestaurantConfig |->
   RestaurantConfigVoids, ScheduleOverride |-> ScheduleOverrideVoids, Subscription
   |-> SubscriptionVoids, TimeSlot |-> TimeSlotVoids, Translation |->
   TranslationVoids, User |-> UserVoids]
==============================================================================
