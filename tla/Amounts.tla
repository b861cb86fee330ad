------------------------------- MODULE Amounts -------------------------------
(***************************************************************************)
(* Amounts and times as the library gives and takes them, and as rippled   *)
(* does (src/src/common/utils.js, src/src/ledger/parse/amount.js).         *)
(*                                                                         *)
(* The values of specifications are decimals, here integers: of XRP in     *)
(* tenths of a drop, so that some have a fraction that no amount of drops  *)
(* has.  rippled has an amount of XRP as a number of drops, and one of     *)
(* another currency as a record with its issuer.  Times are counted from   *)
(* the start of 2000, in quarters of a second here and seconds in rippled. *)
(***************************************************************************)
EXTENDS Integers

CONSTANT undefined   \* the value of a field that is absent

Tenths == 10   \* per drop

dropsToXrp(drops) == Tenths * drops
xrpToDrops(value) == value \div Tenths   \* floor

Drops(n) == [drops |-> n]
isDrops(amount) == "drops" \in DOMAIN amount

Amount(currency, value, counterparty) ==
  [currency |-> currency, value |-> value, counterparty |-> counterparty]

toRippledAmount(amount) ==
  IF amount.currency = "XRP" THEN Drops(xrpToDrops(amount.value))
  ELSE [currency |-> amount.currency, issuer |-> amount.counterparty,
        value |-> amount.value]

parseAmount(amount) ==
  IF isDrops(amount) THEN Amount("XRP", dropsToXrp(amount.drops), undefined)
  ELSE Amount(amount.currency, amount.value, amount.issuer)

iso8601ToRippleTime(time) == (time + 2) \div 4   \* Math.round
rippleTimeToISO8601(rippleTime) == 4 * rippleTime
parseTimestamp(rippleTime) ==
  IF rippleTime \in {undefined, 0} THEN undefined ELSE rippleTimeToISO8601(rippleTime)

(* The conversion of an optional field.                                    *)
Optional(value, convert(_)) == IF value = undefined THEN undefined ELSE convert(value)

(* The first of two values that is not undefined: a || b on objects.       *)
Or(a, b) == IF a # undefined THEN a ELSE b

(* A value of flags is the set of its bits.                                *)
Flag(condition, bit) == IF condition THEN {bit} ELSE {}
FullyCanonicalSig == 31

(* What prepareTransaction adds that a specification does not decide.      *)
setCanonicalFlag(txJSON) == [txJSON EXCEPT !.Flags = @ \cup {FullyCanonicalSig}]

=============================================================================
