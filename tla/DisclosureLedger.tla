--------------------------- MODULE DisclosureLedger ---------------------------
(***************************************************************************)
(* What the disclosure path promises the owner, without its pipeline.      *)
(*                                                                         *)
(* The owner's vault changes as in module Vault.  A disclosure is entered  *)
(* in the ledger in ONE step, and at that instant its grant stands and its *)
(* rows are the vault's current, confirmed, in-scope rows.  What is then   *)
(* delivered for a request is the ledger's entry or nothing at all, to the *)
(* entry's destination, and at most once.                                  *)
(***************************************************************************)
EXTENDS Vault

CONSTANT Request

VARIABLES
    ledger,     \* disclosures entered: one record per request
    delivered   \* what left, with the rows it carried

ledgerVars == <<vaultVars, ledger, delivered>>

Entered(r) == \E e \in ledger : e.request = r
Delivered(r) == \E e \in delivered : e.request = r

Entry(r, g, d, rows) ==
    [request |-> r, grant |-> g, destination |-> d, rows |-> rows]

Delivery(r, d, rows) == [request |-> r, destination |-> d, rows |-> rows]

\* What may leave at all: the rows of an entry, or no row.
Disclosable == {e.rows : e \in ledger} \cup {{}}

LedgerInit ==
    /\ VaultInit
    /\ ledger = {}
    /\ delivered = {}

\* A gateway request is authorized for all the context its grant gives now.
Authorize(r, g, d) ==
    /\ ~Entered(r) /\ ~Delivered(r)
    /\ GrantPermits(g, d)
    /\ Context(g) # {}
    /\ ledger' = ledger \cup {Entry(r, g, d, Context(g))}
    /\ UNCHANGED <<vaultVars, delivered>>

\* Its body leaves, carrying the rows entered, or no memory at all.
Deliver(r, d, rows) ==
    /\ ~Delivered(r)
    /\ IF Entered(r) THEN \E g \in Grant : Entry(r, g, d, rows) \in ledger
                     ELSE rows = {}
    /\ delivered' = delivered \cup {Delivery(r, d, rows)}
    /\ UNCHANGED <<vaultVars, ledger>>

\* A memory search is authorized and answered at once, with matching rows.
Search(r, g, rows) ==
    /\ ~Entered(r) /\ ~Delivered(r)
    /\ GrantPermits(g, McpDestination)
    /\ ledger' = ledger \cup {Entry(r, g, McpDestination, rows)}
    /\ delivered' = delivered \cup {Delivery(r, McpDestination, rows)}
    /\ UNCHANGED vaultVars

LedgerNext ==
    \/ UNCHANGED <<ledger, delivered>> /\ VaultNext
    \/ \E r \in Request, g \in Grant, d \in Destination : Authorize(r, g, d)
    \/ \E r \in Request, d \in Destination, rows \in Disclosable : Deliver(r, d, rows)
    \/ \E r \in Request, g \in Grant : \E rows \in SUBSET Eligible(g) :
          Search(r, g, rows)

LedgerSpec == LedgerInit /\ [][LedgerNext]_ledgerVars
==============================================================================
