----------------------------- MODULE WalletFile -----------------------------
(***************************************************************************)
(* The wallet file, ../tmp/wallets.data: one file for every node of the    *)
(* machine, read and rewritten whole by requests that take no lock.        *)
(*                                                                         *)
(* What the file holds is a set of accounts.  os.WriteFile truncates, then *)
(* writes: in between the file is Torn, no gob decoder gets a wallet out   *)
(* of it, and a writer that fails or dies there leaves it so.              *)
(***************************************************************************)
CONSTANTS
  Requests,   \* goroutines that serve /newaccount
  Readers,    \* goroutines that serve /loadwallet or /addtxn
  Processes,  \* the nodes of the machine
  ProcessOf,  \* goroutine -> its node
  Accounts,   \* the key pairs that may be generated (bounds them)
  Missing,    \* there is no file
  Torn        \* the file holds no wallet

Goroutines == Requests \cup Readers

ASSUME WalletAssumption ==
  /\ Requests \cap Readers = {}
  /\ ProcessOf \in [Goroutines -> Processes]
  /\ \A accounts \in SUBSET Accounts : accounts \notin {Missing, Torn}
  /\ Missing # Torn

VARIABLES
  file,     \* Missing, Torn or the accounts in the file
  pc,       \* goroutine -> "idle", "loaded" or "saving" (truncated)
  wallet,   \* goroutine -> the Accounts of its Wallet
  made,     \* the key pairs generated so far
  saved,    \* history: the accounts written by requests that were answered
  lost,     \* history: a writer failed or died after it had truncated
  aborted,  \* history: the goroutines whose last request LoadFile aborted
  overlapped \* history: a /newaccount began while another was at work

vars == <<file, pc, wallet, made, saved, lost, aborted, overlapped>>

Init ==
  /\ file = Missing
  /\ pc = [r \in Goroutines |-> "idle"]
  /\ wallet = [r \in Goroutines |-> {}]
  /\ made = {} /\ saved = {} /\ lost = FALSE /\ aborted = {}
  /\ overlapped = FALSE

----------------------------------------------------------------------------
\* What LoadFile leaves in w.Accounts: the file's, or CreateWallets' empty map.
Content == IF file \in {Missing, Torn} THEN {} ELSE file

\* Mutant: a file that no wallet can be decoded from counts as a missing one.
DecodesAnyway == TRUE

\* The decoder gets a wallet, or there is no file to decode; HandleError panics
\* otherwise, and that aborts the request.
Decodes == file # Torn

\* CreateWallets in NewAccount, its error ignored.
CreateWallets(r) ==
  /\ pc[r] = "idle"
  /\ Decodes
  /\ wallet' = [wallet EXCEPT ![r] = Content]
  /\ pc' = [pc EXCEPT ![r] = "loaded"]
  /\ aborted' = aborted \ {r}
  /\ overlapped' = (overlapped \/ \E q \in Requests \ {r} : pc[q] # "idle")
  /\ UNCHANGED <<file, made, saved, lost>>

LoadFilePanics(r) ==
  /\ pc[r] = "idle"
  /\ ~Decodes
  /\ aborted' = aborted \cup {r}
  /\ UNCHANGED <<file, pc, wallet, made, saved, lost, overlapped>>

\* LoadWallet; CreateWallets and GetAccount of /addtxn.
LoadWallet(r) ==
  /\ Decodes
  /\ aborted' = aborted \ {r}
  /\ UNCHANGED <<file, pc, wallet, made, saved, lost, overlapped>>

\* Mutant: the wallet is made anew for each account.
AddAccountOnly(r, account) == wallet' = [wallet EXCEPT ![r] = {account}]

AddAccount(r, account) == wallet' = [wallet EXCEPT ![r] = @ \cup {account}]

\* AddAccount, and SaveFile as far as the O_TRUNC of os.WriteFile.
Truncate(r, account) ==
  /\ pc[r] = "loaded"
  /\ account \in Accounts \ made
  /\ made' = made \cup {account}
  /\ AddAccount(r, account)
  /\ file' = Torn
  /\ pc' = [pc EXCEPT ![r] = "saving"]
  /\ UNCHANGED <<saved, lost, aborted, overlapped>>

\* Mutant: the request is answered, its wallet still in a buffer.
WriteLater(r) ==
  /\ pc[r] = "saving"
  /\ saved' = saved \cup wallet[r]
  /\ pc' = [pc EXCEPT ![r] = "idle"]
  /\ wallet' = [wallet EXCEPT ![r] = {}]
  /\ UNCHANGED <<file, made, lost, aborted, overlapped>>

\* The write of os.WriteFile, at offset 0; the request is answered. What a
\* longer earlier write leaves behind it is never decoded.
Write(r) ==
  /\ pc[r] = "saving"
  /\ file' = wallet[r]
  /\ saved' = saved \cup wallet[r]
  /\ pc' = [pc EXCEPT ![r] = "idle"]
  /\ wallet' = [wallet EXCEPT ![r] = {}]
  /\ UNCHANGED <<made, lost, aborted, overlapped>>

\* The goroutines in own end where they are. A write that had begun may have
\* left any part of its wallet in the file.
Abandon(own) ==
  LET torn == \E r \in own : pc[r] = "saving"
  IN  /\ \E r \in own : pc[r] # "idle"
      /\ pc' = [r \in Goroutines |-> IF r \in own THEN "idle" ELSE pc[r]]
      /\ wallet' = [r \in Goroutines |-> IF r \in own THEN {} ELSE wallet[r]]
      /\ lost' = (lost \/ torn)
      /\ file' \in {file} \cup (IF torn THEN {Torn} ELSE {})
      /\ UNCHANGED <<made, saved, aborted, overlapped>>

\* The file cannot be opened, or not be written: SaveFile panics.
SaveFilePanics(r) == Abandon({r})

\* A node is killed, its requests with it.
Crash(p) == Abandon({ r \in Goroutines : ProcessOf[r] = p })

Next ==
  \/ \E r \in Requests :
       \/ CreateWallets(r)
       \/ \E account \in Accounts : Truncate(r, account)
       \/ Write(r)
       \/ SaveFilePanics(r)
  \/ \E r \in Readers : LoadWallet(r)
  \/ \E r \in Goroutines : LoadFilePanics(r)
  \/ \E p \in Processes : Crash(p)

Spec == Init /\ [][Next]_vars
----------------------------------------------------------------------------
Saving == { r \in Requests : pc[r] = "saving" }

\* Readers never hold a state of their own, and nothing but generated keys is
\* ever in a wallet.
TypeOK ==
  /\ file \in {Missing, Torn} \cup SUBSET made
  /\ pc \in [Goroutines -> {"idle", "loaded", "saving"}]
  /\ \A r \in Readers : pc[r] = "idle"
  /\ wallet \in [Goroutines -> SUBSET made]
  /\ made \subseteq Accounts
  /\ saved \subseteq made
  /\ lost \in BOOLEAN /\ overlapped \in BOOLEAN
  /\ aborted \subseteq Goroutines

\* README.md, /newaccount, "Creates a new account and adds it to the wallet":
\* what was answered is in the wallet, whenever there is one to read.
AccountsStay == file # Torn => saved \subseteq Content

\* As long as no two /newaccount overlap, none of what was answered is lost, to
\* whatever other requests, failed writes and crashes (NewAccount; SaveFile).
OneAtATimeLosesNothing == ~overlapped /\ file # Torn => saved \subseteq Content

\* LoadFile aborts a request only after a writer failed or died, or between the
\* two steps of one that did not (wallet.go, LoadFile).
LoadWalletAnswers ==
  [][\A r \in aborted' \ aborted : lost \/ Saving # {}]_vars

\* Only a writer that fails or dies leaves the file torn behind: else one that
\* will write is still there (wallet.go, SaveFile).
TornHasAWriter == file = Torn => lost \/ Saving # {}

\* The file is torn and nobody is about to write it.
Abandoned == file = Torn /\ \A r \in Requests : pc[r] = "idle"

\* No request, of any node, ever replaces an abandoned file: all of them read
\* it first, and panic (wallet.go, LoadFile; NewAccount).
TornForGood == [][Abandoned => Abandoned']_vars
=============================================================================
