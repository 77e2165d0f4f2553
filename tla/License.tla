------------------------------ MODULE License ------------------------------
(***************************************************************************)
(* The offline license of src/src/license.rs: whether a file is one, and   *)
(* which tier it stands for on a day.  Tiers are numbered from Free = 0    *)
(* along the ladder, days from an arbitrary one.                           *)
(*                                                                         *)
(* A license text is its document and its signature block: the document    *)
(* that was signed, the key and the algorithm.  Signatures are not forged: *)
(* one verifies iff it was made by a trusted key over this very document.  *)
(* Line endings are normalised before anything else and are no part of it. *)
(***************************************************************************)
EXTENDS Integers

Free == 0
Pro  == 1
Team == 2
Enterprise == 3
Tiers == Free..Enterprise

Unranked == -1

CONSTANTS
    LastDay,     \* the last day there is: NaiveDate::MAX
    Rejected,    \* an error, here and in the loads of other files
    NoLicense    \* None: the Free tier

ASSUME LicenseConstants == LastDay \in Nat /\ Rejected # NoLicense

\* LicenseDoc, as far as the tier depends on it.
Documents == [tier : STRING, rank : Nat \cup {Unranked}, issued : Int, expires : Int, grace_days : Nat]

Known == [free |-> Free, pro |-> Pro, team |-> Team, enterprise |-> Enterprise]

\* A tier this build does not know is the highest known one at or below its
\* rank, and Pro without a rank.
tier_of(doc) ==
    IF doc.tier \in DOMAIN Known THEN Known[doc.tier]
    ELSE IF doc.rank = Unranked THEN Pro
    ELSE IF doc.rank > Enterprise THEN Enterprise ELSE doc.rank

grace_end(doc) ==
    IF doc.expires + doc.grace_days > LastDay THEN LastDay ELSE doc.expires + doc.grace_days

\* Variant: a license is of no use before the day it was issued.
evaluate_strictly(doc, today) ==
    CASE today < doc.issued      -> "Expired"
      [] today <= doc.expires    -> "Valid"
      [] today <= grace_end(doc) -> "Grace"
      [] OTHER                   -> "Expired"

evaluate(doc, today) ==
    IF today < doc.issued THEN "NotYetValid"
    ELSE IF today <= doc.expires THEN "Valid"
    ELSE IF today <= grace_end(doc) THEN "Grace" ELSE "Expired"

effective_tier(doc, today) ==
    IF evaluate(doc, today) = "Expired" THEN Free ELSE tier_of(doc)

current_tier(doc, today) ==
    IF doc = NoLicense THEN Free ELSE effective_tier(doc, today)

parse_and_verify(text, keys) ==
    IF /\ text.doc # Rejected
       /\ text.signature.algorithm = "ed25519"
       /\ text.signature.key \in keys
       /\ text.signature.over = text.doc
    THEN text.doc ELSE Rejected

\* What the issuing tool writes.
sign_document(doc, key) ==
    [doc |-> doc, signature |-> [algorithm |-> "ed25519", key |-> key, over |-> doc]]
=============================================================================
