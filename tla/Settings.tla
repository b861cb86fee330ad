------------------------------- MODULE Settings -------------------------------
(***************************************************************************)
(* The settings of an account and of one of its trust lines: from          *)
(* prepareSettings and prepareTrustline to what getSettings, getTrustlines *)
(* and getTransaction say of them (src/src/transaction/settings.js,        *)
(* trustline.js, src/src/ledger/settings.js, trustlines.js and parse/      *)
(* below them, with the tables of src/src/common/constants.js and          *)
(* txflags.js).                                                            *)
(*                                                                         *)
(* JSON objects with optional fields are functions on the fields present;  *)
(* an absent field of a ledger entry is "" or 0.  Numbers with decimals    *)
(* are in thousandths.  A value of flags is the set of its bits.           *)
(***************************************************************************)
EXTENDS Integers, FiniteSets, Objects

CONSTANTS
  FlagNames,  \* the flags that are set and cleared
  Keys,       \* regular keys
  Rates,      \* transfer rates and qualities, in thousandths
  Limits      \* limits of the trust line

VARIABLES
  root,   \* the account root that rippled keeps
  line,   \* the account's side of the trust line
  asked   \* what was asked for last, of each setting

vars == <<root, line, asked>>

-----------------------------------------------------------------------------
(* Tables                                                                  *)

AccountFlags ==
  [passwordSpent |-> 16, requireDestinationTag |-> 17, requireAuthorization |-> 18,
   disallowIncomingXRP |-> 19, disableMasterKey |-> 20, noFreeze |-> 21,
   globalFreeze |-> 22, defaultRipple |-> 23]

AccountFlagIndices ==
  [requireDestinationTag |-> 1, requireAuthorization |-> 2, disallowIncomingXRP |-> 3,
   disableMasterKey |-> 4, enableTransactionIDTracking |-> 5, noFreeze |-> 6,
   globalFreeze |-> 7, defaultRipple |-> 8]

(* Fields of the account root and the names of their settings.             *)
AccountFields ==
  [EmailHash |-> "emailHash", MessageKey |-> "messageKey", Domain |-> "domain",
   TransferRate |-> "transferRate"]

TrustSet == [SetAuth |-> 16, SetNoRipple |-> 17, ClearNoRipple |-> 18,
             SetFreeze |-> 20, ClearFreeze |-> 21]

NULL == "null"   \* null for a string, and for a number:
NULLRATE == -1
NoFields == [x \in {} |-> 0]

(* The removal of signers has a threshold of 0 and no weights; signers     *)
(* that are read have no threshold when it is 0, and an empty list.        *)
NoSigners == [threshold |-> 0, weights |-> {}]

(* The domains, and the hex of their lower case.                           *)
HexOf == "" :> "" @@ "d" :> "64"

-----------------------------------------------------------------------------
(* prepareSettings.  Settings have one key, besides memos.                 *)

(* shift(9) and shift(-9), from and to thousandths.                        *)
Shift(rate) == rate * 1000000
Unshift(value) == value \div 1000000

setTransactionFlags(name, value) ==
  IF name \notin DOMAIN AccountFlagIndices THEN NoFields
  ELSE IF value THEN "SetFlag" :> AccountFlagIndices[name]
  ELSE "ClearFlag" :> AccountFlagIndices[name]

(* null is replaced by the default of the field; the domain becomes hex.   *)
FieldValue(name, value) ==
  CASE name = "emailHash" -> IF value = NULL THEN "0" ELSE value
    [] name = "transferRate" -> Shift(IF value = NULLRATE THEN 0 ELSE value)
    [] name = "domain" -> HexOf[value]
    [] OTHER -> value

setTransactionFields(name, value) ==
  [field \in {f \in DOMAIN AccountFields : AccountFields[f] = name} |->
     FieldValue(name, value)]

formatSignerEntry(signer) ==
  [Account |-> signer.address, SignerWeight |-> signer.weight]

createSettingsTransaction(name, value) ==
  IF name = "regularKey"
  THEN "TransactionType" :> "SetRegularKey" @@
         IF value = NULL THEN NoFields ELSE "RegularKey" :> value
  ELSE IF name = "signers"
  THEN "TransactionType" :> "SignerListSet" @@
         "SignerQuorum" :> value.threshold @@
         "SignerEntries" :> {formatSignerEntry(signer) : signer \in value.weights}
  ELSE "TransactionType" :> "AccountSet" @@
         setTransactionFlags(name, value) @@ setTransactionFields(name, value)

(* What the schema of settings lets pass, of the rate: null or at least 1. *)
Permitted(name, value) ==
  name = "transferRate" => value = NULLRATE \/ value \in 1000 .. 4294

-----------------------------------------------------------------------------
(* prepareTrustline                                                        *)

convertQuality(quality) == Shift(quality)

(* The flags of an optional boolean.                                       *)
Choose(spec, name, true, false) ==
  IF name \notin DOMAIN spec THEN {}
  ELSE IF spec[name] THEN {true} ELSE {false}

createTrustlineTransaction(spec) ==
  "TransactionType" :> "TrustSet" @@
  "LimitAmount" :> spec["limit"] @@
  "Flags" :>
    ((IF "authorized" \in DOMAIN spec /\ spec["authorized"]
      THEN {TrustSet.SetAuth} ELSE {})
       \cup Choose(spec, "ripplingDisabled", TrustSet.SetNoRipple, TrustSet.ClearNoRipple)
       \cup Choose(spec, "frozen", TrustSet.SetFreeze, TrustSet.ClearFreeze)) @@
  (IF "qualityIn" \in DOMAIN spec
   THEN "QualityIn" :> convertQuality(spec["qualityIn"]) ELSE NoFields) @@
  (IF "qualityOut" \in DOMAIN spec
   THEN "QualityOut" :> convertQuality(spec["qualityOut"]) ELSE NoFields)

-----------------------------------------------------------------------------
(* The ledger entries, and what rippled makes of the transactions          *)

NoRoot == [Flags |-> {}, AccountTxnID |-> FALSE, EmailHash |-> "", MessageKey |-> "",
           Domain |-> "", TransferRate |-> 0, RegularKey |-> "",
           signers |-> [quorum |-> 0, entries |-> {}]]
NoLine == [limit |-> 0, qualityIn |-> 0, qualityOut |-> 0, flags |-> {}]

(* The bits of the flags by the index of SetFlag; noFreeze is for good.    *)
Bit == [index \in 1 .. 8 \ {5} |-> index + IF index < 5 THEN 16 ELSE 15]

SetOrClear(r, t) ==
  IF "SetFlag" \in DOMAIN t THEN
    IF t["SetFlag"] = 5 THEN [r EXCEPT !.AccountTxnID = TRUE]
    ELSE [r EXCEPT !.Flags = @ \cup {Bit[t["SetFlag"]]}]
  ELSE IF "ClearFlag" \in DOMAIN t THEN
    IF t["ClearFlag"] = 5 THEN [r EXCEPT !.AccountTxnID = FALSE]
    ELSE [r EXCEPT !.Flags = @ \ ({Bit[t["ClearFlag"]]} \ {21})]
  ELSE r

(* A default removes a field: a hash of 0, a rate of 0 or 1.               *)
Stored(field, value) ==
  CASE field = "EmailHash" -> IF value = "0" THEN "" ELSE value
    [] field = "TransferRate" -> IF value = Shift(1000) THEN 0 ELSE value
    [] OTHER -> value

ApplySettings(r, t) ==
  IF t["TransactionType"] = "SetRegularKey"
  THEN [r EXCEPT !.RegularKey = IF "RegularKey" \in DOMAIN t THEN t["RegularKey"] ELSE ""]
  ELSE IF t["TransactionType"] = "SignerListSet"
  THEN [r EXCEPT !.signers = [quorum |-> t["SignerQuorum"], entries |-> t["SignerEntries"]]]
  ELSE [f \in DOMAIN r |-> IF f \in DOMAIN t THEN Stored(f, t[f])
                           ELSE SetOrClear(r, t)[f]]

QualityStored(t, name, old) ==
  IF name \notin DOMAIN t THEN old
  ELSE IF t[name] = Shift(1000) THEN 0 ELSE t[name]

ApplyTrust(l, t) ==
  [limit |-> t["LimitAmount"],
   qualityIn |-> QualityStored(t, "QualityIn", l.qualityIn),
   qualityOut |-> QualityStored(t, "QualityOut", l.qualityOut),
   flags |->
     (l.flags \ ((IF 18 \in t["Flags"] THEN {"NoRipple"} ELSE {})
                   \cup IF 21 \in t["Flags"] THEN {"Freeze"} ELSE {}))
       \cup (IF 16 \in t["Flags"] THEN {"Auth"} ELSE {})
       \cup (IF 17 \in t["Flags"] THEN {"NoRipple"} ELSE {})
       \cup (IF 20 \in t["Flags"] THEN {"Freeze"} ELSE {})]

-----------------------------------------------------------------------------
(* Parsing                                                                 *)

parseField(field, value) ==
  CASE field = "Domain" -> CHOOSE domain \in DOMAIN HexOf : HexOf[domain] = value
    [] field = "TransferRate" -> Unshift(value)
    [] OTHER -> value

(* Of a transaction or an account root, as the function of its fields.     *)
parseFields(data) ==
  [name \in {AccountFields[f] : f \in DOMAIN AccountFields \cap DOMAIN data} |->
     LET field == CHOOSE f \in DOMAIN AccountFields : AccountFields[f] = name
     IN parseField(field, data[field])]
  @@ (IF "RegularKey" \in DOMAIN data THEN "regularKey" :> data["RegularKey"]
      ELSE NoFields)
  @@ (IF "SignerQuorum" \in DOMAIN data
      THEN "signers" :> [threshold |-> data["SignerQuorum"],
                         weights |-> {[address |-> entry.Account, weight |-> entry.SignerWeight]
                                        : entry \in data["SignerEntries"]}]
      ELSE NoFields)

(* Of the change to the account root that the metadata of a transaction    *)
(* tells: the flags that differ, and the presence of AccountTxnID.         *)
parseFlags(before, after) ==
  LET set == after.Flags \ before.Flags
      cleared == before.Flags \ after.Flags
  IN [name \in {n \in DOMAIN AccountFlags : AccountFlags[n] \in set \cup cleared} |->
        AccountFlags[name] \in set]
     @@ IF before.AccountTxnID = after.AccountTxnID THEN NoFields
        ELSE "enableTransactionIDTracking" :> after.AccountTxnID

parseSettings(t, before, after) ==
  (IF t["TransactionType"] = "AccountSet" THEN parseFlags(before, after) ELSE NoFields)
    @@ parseFields(t)

(* account_info has the fields that are not the default, and no signers.   *)
AccountData(r) ==
  [f \in {g \in {"EmailHash", "MessageKey", "Domain", "RegularKey"} : r[g] # ""}
     \cup (IF r.TransferRate = 0 THEN {} ELSE {"TransferRate"}) |-> r[f]]

getSettings(r) ==
  [name \in {n \in DOMAIN AccountFlags : AccountFlags[n] \in r.Flags} |-> TRUE]
    @@ parseFields(AccountData(r))

parseQuality(quality) == Unshift(quality)

parseFlag(name, flags, true, false) ==
  IF true \in flags THEN name :> TRUE
  ELSE IF false \in flags THEN name :> FALSE ELSE NoFields

(* Of a transaction.                                                       *)
parseTrustline(t) ==
  "limit" :> t["LimitAmount"]
  @@ (IF "QualityIn" \in DOMAIN t THEN "qualityIn" :> parseQuality(t["QualityIn"])
      ELSE NoFields)
  @@ (IF "QualityOut" \in DOMAIN t THEN "qualityOut" :> parseQuality(t["QualityOut"])
      ELSE NoFields)
  @@ parseFlag("ripplingDisabled", t["Flags"], TrustSet.SetNoRipple, TrustSet.ClearNoRipple)
  @@ parseFlag("frozen", t["Flags"], TrustSet.SetFreeze, TrustSet.ClearFreeze)
  @@ parseFlag("authorized", t["Flags"], TrustSet.SetAuth, 0)

(* Of a line of account_lines.                                             *)
parseAccountTrustline(l) ==
  LET Shown(name, flag) == IF flag \in l.flags THEN name :> TRUE ELSE NoFields
  IN "limit" :> l.limit @@ "currency" :> "USD"
     @@ (IF l.qualityIn = 0 THEN NoFields ELSE "qualityIn" :> parseQuality(l.qualityIn))
     @@ (IF l.qualityOut = 0 THEN NoFields ELSE "qualityOut" :> parseQuality(l.qualityOut))
     @@ Shown("ripplingDisabled", "NoRipple") @@ Shown("frozen", "Freeze")
     @@ Shown("authorized", "Auth")

(* With no currency asked for, or with that of the line.                   *)
currencyFilter(currency, spec) == currency \in {NULL, spec["currency"]}

(* account_lines has the line once it is not the default.                  *)
getTrustlines(l, currency) ==
  {spec \in {parseAccountTrustline(m) : m \in {l} \ {NoLine}} :
     currencyFilter(currency, spec)}

-----------------------------------------------------------------------------
(* The account goes through transactions of one setting each, as prepared  *)

Settings ==
  (FlagNames \X BOOLEAN)
    \cup ({"domain"} \X {"", "d"}) \cup ({"messageKey"} \X {"", "m"})
    \cup ({"emailHash"} \X {NULL, "e"})
    \cup ({"regularKey"} \X ({NULL} \cup Keys))
    \cup ({"signers"} \X {NoSigners, [threshold |-> 2, weights |-> [address : Keys, weight : {2}]]})
    \cup {s \in {"transferRate"} \X ({NULLRATE} \cup Rates) : Permitted(s[1], s[2])}

Trustlines ==
  UNION {{"limit" :> limit @@ given : given \in
            UNION {[present -> BOOLEAN] :
                     present \in SUBSET {"ripplingDisabled", "frozen", "authorized"}}} :
         limit \in Limits}

Qualities == UNION {[present -> Rates] : present \in SUBSET {"qualityIn", "qualityOut"}}

Init ==
  /\ root = NoRoot
  /\ line = NoLine
  /\ asked = [name \in FlagNames |-> FALSE] @@ "domain" :> "" @@ "messageKey" :> "" @@
               "emailHash" :> NULL @@ "regularKey" :> NULL @@ "transferRate" :> NULLRATE

SetSetting ==
  /\ \E setting \in Settings :
       LET name == setting[1]
           value == setting[2]
       IN /\ root' = ApplySettings(root, createSettingsTransaction(name, value))
          /\ asked' = IF name = "signers" \/ (name = "noFreeze" /\ ~value) THEN asked
                      ELSE [asked EXCEPT ![name] = value]
  /\ UNCHANGED line

SetTrust ==
  /\ \E spec \in Trustlines, qualities \in Qualities :
       line' = ApplyTrust(line, createTrustlineTransaction(spec @@ qualities))
  /\ UNCHANGED <<root, asked>>

(* A free change of the regular key, and a payment that gives it back.     *)
PasswordSpent ==
  /\ root' = [root EXCEPT !.Flags = IF 16 \in @ THEN @ \ {16} ELSE @ \cup {16}]
  /\ UNCHANGED <<line, asked>>

Next == SetSetting \/ SetTrust \/ PasswordSpent

Spec == Init /\ [][Next]_vars

-----------------------------------------------------------------------------
(* Properties                                                              *)

Default(name, value) == value \in
  CASE name \in FlagNames -> {FALSE}
    [] name \in {"domain", "messageKey"} -> {""}
    [] name = "transferRate" -> {NULLRATE, 1000}
    [] OTHER -> {NULL}

(* getSettings gives what was asked for last, of each setting that is not  *)
(* the default (docs/index.md 2715), through its flag, its field and back; *)
(* it never gives enableTransactionIDTracking and signers, which the docs  *)
(* list (2725, 2734).                                                      *)
SettingsReadBack ==
  getSettings(root) =
    [name \in {n \in DOMAIN asked \ {"enableTransactionIDTracking"} :
                 ~Default(n, asked[n])} |-> asked[name]]
    @@ IF 16 \in root.Flags THEN "passwordSpent" :> TRUE ELSE NoFields

(* The specification in getTrustlines would produce the line in its        *)
(* current state (docs/index.md 1263).                                     *)
LineReadBack ==
  \A currency \in {NULL, "USD"} :
    {ApplyTrust(NoLine, createTrustlineTransaction(spec)) :
       spec \in getTrustlines(line, currency)} = {line} \ {NoLine}

ReadsBack == SettingsReadBack /\ LineReadBack

=============================================================================
