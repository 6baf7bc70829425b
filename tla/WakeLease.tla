----------------------------- MODULE WakeLease ------------------------------
(***************************************************************************)
(* What the alarm store promises its two kinds of client, free of rows,    *)
(* revisions and clocks:                                                   *)
(*                                                                         *)
(*  - to schedulers, a fenced lease per Durable Object: at most one holder,*)
(*    granted only within the current epoch (the adopted activation), under*)
(*    a token that is never issued twice;                                  *)
(*  - to the host's receipt notifier, a debt per Durable Object: an ask is *)
(*    settled only by a pass whose lease was granted after the ask.        *)
(***************************************************************************)
EXTENDS Integers

CONSTANTS Keys, Epochs, NoEpoch

VARIABLES
    epoch,      \* the activation leases belong to
    lease,      \* the token under which a key is leased; 0 when it is free
    issued,     \* the greatest token ever issued for a key
    asked,      \* asks made of the current incarnation of a key
    captured,   \* how many of them the last grant saw
    served      \* how many of them a finished pass has settled

leaseVars == <<epoch, lease, issued, asked, captured, served>>

Zero == [k \in Keys |-> 0]

Init ==
    /\ epoch = NoEpoch
    /\ lease = Zero /\ issued = Zero
    /\ asked = Zero /\ captured = Zero /\ served = Zero

\* A new activation supersedes the old one and all its leases.
Adopt(e) ==
    /\ epoch' = e
    /\ lease' = Zero
    /\ UNCHANGED <<issued, asked, captured, served>>

\* A set of free keys is leased under fresh tokens; each grant sees all asks.
Grant(S) ==
    /\ epoch # NoEpoch
    /\ \A k \in S : lease[k] = 0
    /\ issued' \in [Keys -> Nat]
    /\ \A k \in Keys : IF k \in S THEN issued'[k] > issued[k] ELSE issued'[k] = issued[k]
    /\ lease' = [k \in Keys |-> IF k \in S THEN issued'[k] ELSE lease[k]]
    /\ captured' = [k \in Keys |-> IF k \in S THEN asked[k] ELSE captured[k]]
    /\ UNCHANGED <<epoch, asked, served>>

\* The holder gives the key back without settling anything.
Release(k) ==
    /\ lease' = [lease EXCEPT ![k] = 0]
    /\ UNCHANGED <<epoch, issued, asked, captured, served>>

\* The holder finishes a pass: exactly the asks its grant saw are settled.
Serve(k) ==
    /\ lease[k] # 0
    /\ lease' = [lease EXCEPT ![k] = 0]
    /\ served' = [served EXCEPT ![k] = captured[k]]
    /\ UNCHANGED <<epoch, issued, asked, captured>>

Ask(k) ==
    /\ asked' = [asked EXCEPT ![k] = @ + 1]
    /\ UNCHANGED <<epoch, lease, issued, captured, served>>

\* Retirement or a new incarnation drops the lease and the debt, not the tokens.
Forget(k) ==
    /\ lease' = [lease EXCEPT ![k] = 0]
    /\ asked' = [asked EXCEPT ![k] = 0]
    /\ captured' = [captured EXCEPT ![k] = 0]
    /\ served' = [served EXCEPT ![k] = 0]
    /\ UNCHANGED <<epoch, issued>>

Next ==
    \/ \E e \in Epochs : Adopt(e)
    \/ \E S \in SUBSET Keys : Grant(S)
    \/ \E k \in Keys : Release(k) \/ Serve(k) \/ Ask(k) \/ Forget(k)

Spec == Init /\ [][Next]_leaseVars

=============================================================================
