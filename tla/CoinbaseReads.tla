--------------------------- MODULE CoinbaseReads ---------------------------
(***************************************************************************)
(* What a callback reads of Coinbase once it holds a token: the user, then *)
(* the wallets page by page, each read repeated while it fails, then the   *)
(* snapshot of balances.  Wallets may be opened while they are listed.     *)
(* Connection takes all of this for its one action Fetch.                  *)
(***************************************************************************)
EXTENDS Integers, Sequences, FiniteSets, Functions

CONSTANTS Retries,   \* attempts of one read
          MaxPages,  \* pages ListAccounts reads: 50 in the code
          PageSize,  \* wallets of a page, chosen by Coinbase
          Wallets,   \* wallet ids in the order Coinbase lists them, from 1
          Open       \* the sets of wallets that may be open at first

ASSUME BoundsAssumption == {Retries, MaxPages, PageSize} \subseteq Nat \ {0}
ASSUME WalletsAssumption == /\ Wallets \subseteq Nat \ {0} /\ IsFiniteSet(Wallets)
                            /\ Open \subseteq SUBSET Wallets

VARIABLES
  honest,     \* Coinbase's cursors lead through the list once
  exist,      \* the wallets that are open
  there,      \* ... that were when the listing began
  reading,    \* "user", "accounts", "balances" or "done"
  attempt,    \* of this read
  waiting,    \* for its next attempt
  cursor,     \* starting_after; 0 for the first page
  accounts,   \* the pages read, in their order
  cancelled,  \* the request's context
  result,     \* how the reads ended, "none" before
  stored,     \* the snapshot of balances, {} before
  failures    \* GETs that failed, in a row, up to now

coinbase == <<honest, exist>>
client   == <<reading, attempt, waiting, cursor, accounts, result>>
vars == <<coinbase, client, there, cancelled, stored, failures>>

Results == {"none", "ok", "invalid", "refused", "failed", "cancelled", "endless", "conflict"}

TypeOK ==
  /\ honest \in BOOLEAN /\ waiting \in BOOLEAN /\ cancelled \in BOOLEAN
  /\ {exist, there, stored} \subseteq SUBSET Wallets
  /\ reading \in {"user", "accounts", "balances", "done"}
  /\ attempt \in 1..Retries
  /\ cursor \in Wallets \cup {0}
  /\ accounts \in Seq(SUBSET Wallets) /\ Len(accounts) <= MaxPages
  /\ result \in Results
  /\ failures \in 0..Retries

-----------------------------------------------------------------------------
(* Coinbase. *)

After(c) == {a \in exist : a > c}

\* The page that starts after a cursor.
Page(c) == {a \in After(c) : Cardinality({b \in After(c) : b < a}) < PageSize}

\* next_starting_after of that page, 0 for the empty string.
Following(c) ==
  IF honest THEN {IF Page(c) = After(c) THEN 0 ELSE CHOOSE a \in Page(c) : \A b \in Page(c) : b <= a}
            ELSE exist \cup {0}

OpenWallet ==
  \E a \in Wallets \ exist :
    /\ exist' = exist \cup {a}
    /\ UNCHANGED <<honest, client, there, cancelled, stored, failures>>

-----------------------------------------------------------------------------
(* authGet: one GET, and what follows of its outcome. *)

Init ==
  /\ honest \in BOOLEAN
  /\ exist \in Open /\ there = exist
  /\ reading = "user" /\ attempt = 1 /\ waiting = FALSE
  /\ cursor = 0 /\ accounts = <<>>
  /\ cancelled = FALSE /\ result = "none" /\ stored = {}
  /\ failures = 0

Get(r) == /\ reading = r /\ ~waiting
          /\ UNCHANGED <<coinbase, cancelled, stored>>

Ends(r) == /\ reading' = "done" /\ result' = r
           /\ UNCHANGED <<attempt, waiting, cursor, accounts>>

\* The next read begins with its first attempt.
NextRead(r, c) == /\ reading' = r /\ cursor' = c /\ attempt' = 1
                  /\ UNCHANGED <<waiting, result>>

\* Any status but 200, 429 and 500 up is final, 401 among them.
Refused == /\ Get("user") \/ Get("accounts")
           /\ Ends("refused") /\ UNCHANGED <<there, failures>>

\* Mutation: the last failure is repeated too.
FailsAgain == /\ Get("user") \/ Get("accounts")
              /\ failures' = failures + 1
              /\ waiting' = TRUE /\ UNCHANGED <<reading, attempt, cursor, accounts, result, there>>

\* Unreachable, 429 or 500 up: repeated unless it was the last attempt or the
\* request is gone.
Fails ==
  /\ Get("user") \/ Get("accounts")
  /\ failures' = failures + 1
  /\ UNCHANGED there
  /\ IF cancelled THEN Ends("cancelled")
     ELSE IF attempt = Retries THEN Ends("failed")
     ELSE waiting' = TRUE /\ UNCHANGED <<reading, attempt, cursor, accounts, result>>

Again == /\ waiting /\ waiting' = FALSE /\ attempt' = attempt + 1
         /\ UNCHANGED <<coinbase, there, cancelled, reading, cursor, accounts, result, stored, failures>>

WaitCut == /\ waiting /\ cancelled /\ waiting' = FALSE
           /\ reading' = "done" /\ result' = "cancelled"
           /\ UNCHANGED <<coinbase, there, cancelled, attempt, cursor, accounts, stored, failures>>

Cancel == /\ ~cancelled /\ cancelled' = TRUE
          /\ UNCHANGED <<coinbase, client, there, stored, failures>>

-----------------------------------------------------------------------------
(* GetUser, ListAccounts and the snapshot. *)

\* A body that does not decode (one longer than 1 MiB is cut), or without id.
Invalid == /\ Get("user") \/ Get("accounts")
           /\ Ends("invalid") /\ UNCHANGED <<there, failures>>

User == /\ Get("user")
        /\ NextRead("accounts", 0)
        /\ there' = exist /\ failures' = 0
        /\ UNCHANGED accounts

\* Mutation: the bound is one page less.
PageRead49 ==
  /\ Get("accounts")
  /\ accounts' = Append(accounts, Page(cursor))
  /\ failures' = 0 /\ UNCHANGED there
  /\ \E c \in Following(cursor) :
       IF c = 0 THEN NextRead("balances", 0)
       ELSE IF Len(accounts') >= MaxPages - 1
            THEN reading' = "done" /\ result' = "endless" /\ UNCHANGED <<attempt, waiting, cursor>>
            ELSE NextRead("accounts", c)

\* Mutation: what was read is returned at the bound.
PageReadPart ==
  /\ Get("accounts")
  /\ accounts' = Append(accounts, Page(cursor))
  /\ failures' = 0 /\ UNCHANGED there
  /\ \E c \in Following(cursor) :
       IF c = 0 \/ Len(accounts') = MaxPages THEN NextRead("balances", 0)
                                             ELSE NextRead("accounts", c)

\* A page is read: it was the last, or the bound is reached, or the next one.
PageRead ==
  /\ Get("accounts")
  /\ accounts' = Append(accounts, Page(cursor))
  /\ failures' = 0 /\ UNCHANGED there
  /\ \E c \in Following(cursor) :
       IF c = 0 THEN NextRead("balances", 0)
       ELSE IF Len(accounts') = MaxPages
            THEN reading' = "done" /\ result' = "endless" /\ UNCHANGED <<attempt, waiting, cursor>>
            ELSE NextRead("accounts", c)

Repeated == \E i, j \in DOMAIN accounts : i < j /\ accounts[i] \cap accounts[j] # {}

\* persistConnection replaces the balances in one transaction; a wallet listed
\* twice breaks UNIQUE (cex_account_id, provider_account_id).
Persist ==
  /\ reading = "balances"
  /\ reading' = "done"
  /\ \/ ~Repeated /\ result' = "ok" /\ stored' = UNION Range(accounts)
     \/ Repeated /\ result' = "conflict" /\ UNCHANGED stored
     \/ cancelled /\ result' = "cancelled" /\ UNCHANGED stored
  /\ UNCHANGED <<coinbase, there, attempt, waiting, cursor, accounts, cancelled, failures>>

Next == \/ OpenWallet \/ Cancel
        \/ Refused \/ Fails \/ Again \/ WaitCut
        \/ Invalid \/ User \/ PageRead \/ Persist

Spec == Init /\ [][Next]_vars

-----------------------------------------------------------------------------
(* Properties. *)

\* "following Coinbase pagination ... we never assume one": a snapshot that is
\* stored holds every wallet that was open when the listing began, once, and
\* none that is not open, also when some are opened in between.
StoredIsWhole ==
  result = "ok" => /\ ~Repeated
                   /\ stored \subseteq exist
                   /\ honest => there \subseteq stored

\* The reads give up only on an account of more pages than are read, or on a
\* read that failed at every one of its attempts.
GivesUpForAReason ==
  /\ result = "endless" /\ honest => Cardinality(exist) > MaxPages * PageSize
  /\ result = "failed" => failures = Retries
=============================================================================
