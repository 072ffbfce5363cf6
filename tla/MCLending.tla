----------------------------- MODULE MCLending -----------------------------
(***************************************************************************)
(* Instances of Lending for TLC.  One hundred per cent is 1000 basis       *)
(* points and a year is one ledger, so that fees and interest of the       *)
(* amounts below are small whole numbers, some of them rounded down.       *)
(***************************************************************************)
EXTENDS LoanQuotes

CONSTANTS Ann, Bob

MCUsers == {Ann, Bob}
OneUser == {Ann}
MCInitialBalance == [a \in Accounts |-> IF a = Contract THEN 400
                                        ELSE IF a = Treasury THEN 0 ELSE 100]
MCRecipients == {Ann, Treasury}
NoRecipients == {}
NoLimits == {}
FewLimits == {<<100, 180>>}
NoDeadline == {NoDue}
ShortDeadline == {NoDue, 1}
=============================================================================
