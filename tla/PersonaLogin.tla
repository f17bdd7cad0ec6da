---------------------------- MODULE PersonaLogin ----------------------------
(***************************************************************************)
(* Logging a persona in to Telegram.  Who a persona is signed in as is     *)
(* kept in three places: the database row, the session file at the path    *)
(* its label gives, and the clients waiting for a text message in the      *)
(* memory of the process.  Clients write the file they opened, also when   *)
(* it is unlinked under them.                                              *)
(***************************************************************************)
EXTENDS Integers, Sequences

CONSTANTS Admins,       \* calls served at the same time, those of the command line among them
          MaxLogins, MaxPhones   \* bounds: clients opened, phones the row has had

ASSUME LoginAssumption == MaxLogins \in Nat /\ MaxPhones \in Nat \ {0}

VARIABLES row,      \* distribution_personas: is it there, whose phone, session_path set, telegram_user_id
          file,     \* the session file at the path: its number, 0 when there is none
          signed,   \* session file -> the account it is signed in as, 0 for none
          clients,  \* every client opened: open, its phone and its file
          store,    \* _store: the client waiting for a code, 0 for none, and is it past its time
          calls,    \* admin -> the call it waits for
          torn      \* history: calls overlapped, or stopped half-way, in a way the code does not mend
loginVars == <<row, file, signed, clients, store, calls, torn>>

NoCall == [op |-> "none", client |-> 0, row |-> [there |-> FALSE, phone |-> 0, session |-> FALSE, user |-> 0]]
NoStore == [client |-> 0, old |-> FALSE]
LoginInit == /\ row = [there |-> TRUE, phone |-> 1, session |-> FALSE, user |-> 0]
             /\ file = 0 /\ signed = <<>> /\ clients = <<>>
             /\ store = NoStore
             /\ calls = [a \in Admins |-> NoCall]
             /\ torn = FALSE

Busy(ops) == \E a \in Admins : calls[a].op \in ops
Clearing == {"logout", "credentials"}
Signing == {"verify", "save", "finally", "cli", "cli save"}
End(a) == calls' = [calls EXCEPT ![a] = NoCall]
Tear(when) == torn' = (torn \/ when)
Closed(cs, c) == IF c = 0 THEN cs ELSE [cs EXCEPT ![c].open = FALSE]

(* ---- opening a client opens its file, or makes it ---- *)
FileAfter == IF file = 0 THEN Len(signed) + 1 ELSE file
SignedAfter == IF file = 0 THEN Append(signed, 0) ELSE signed
Opened == [open |-> TRUE, phone |-> row.phone, file |-> FileAfter]
\* _cleanup_expired, first in request_code and verify_code.
Cleaned == IF store.old THEN Closed(clients, store.client) ELSE clients
StoreCleaned == IF store.old THEN NoStore ELSE store

(* ---- request_code ---- *)
BeginRequest(a) ==
  /\ calls[a] = NoCall /\ row.there /\ Len(clients) < MaxLogins
  /\ file' = FileAfter /\ signed' = SignedAfter
  /\ store' = StoreCleaned
  /\ IF SignedAfter[FileAfter] # 0
     THEN clients' = Append(Cleaned, [Opened EXCEPT !.open = FALSE]) /\ UNCHANGED calls
     ELSE /\ clients' = Append(Cleaned, Opened)
          /\ calls' = [calls EXCEPT ![a] = [op |-> "request", client |-> Len(clients) + 1, row |-> row]]
  /\ Tear(Busy(Clearing)) /\ UNCHANGED row
CodeSent(a) ==
  /\ calls[a].op = "request"
  /\ clients' = Closed(clients, store.client)
  /\ store' = [client |-> calls[a].client, old |-> FALSE]
  /\ Tear(Busy(Signing))
  /\ End(a) /\ UNCHANGED <<row, file, signed>>
CodeNotSent(a) ==
  /\ calls[a].op = "request"
  /\ clients' = Closed(clients, calls[a].client)
  /\ End(a) /\ UNCHANGED <<row, file, signed, store, torn>>

(* ---- verify_code ---- *)
BeginVerify(a) ==
  /\ calls[a] = NoCall /\ row.there /\ store.client # 0
  /\ clients' = Cleaned /\ store' = StoreCleaned
  /\ calls' = [calls EXCEPT ![a] = IF store.old THEN NoCall ELSE [op |-> "verify", client |-> store.client, row |-> row]]
  /\ Tear(Busy(Clearing)) /\ UNCHANGED <<row, file, signed>>
To(a, op) == calls' = [calls EXCEPT ![a].op = op]
SignIn(a) ==
  LET c == calls[a].client
  IN /\ calls[a].op \in {"verify", "cli"} /\ clients[c].open
     /\ signed' = [signed EXCEPT ![clients[c].file] = clients[c].phone]
     /\ To(a, IF calls[a].op = "cli" THEN "cli save" ELSE "save")
     /\ UNCHANGED <<row, file, clients, store, torn>>
\* A wrong or expired code, a client that was closed meanwhile.
SignInFails(a) ==
  /\ calls[a].op = "verify"
  /\ To(a, "finally")
  /\ UNCHANGED <<row, file, signed, clients, store, torn>>
\* The second factor is asked for: the client is kept for the next verify_code.
PasswordNeeded(a) ==
  /\ calls[a].op = "verify" /\ clients[calls[a].client].open
  /\ End(a) /\ UNCHANGED <<row, file, signed, clients, store, torn>>
\* get_me of the client; 0 when its session has been ended.
Account(a) == signed[clients[calls[a].client].file]
\* An UPDATE sets the columns that differ from what the call has read.
AccountWritten(read, session, user) ==
  [row EXCEPT !.session = IF session = read.session THEN @ ELSE session,
              !.user = IF user = read.user THEN @ ELSE user]
Save(a) ==
  /\ calls[a].op = "save" /\ Account(a) # 0
  /\ row' = IF row.there THEN AccountWritten(calls[a].row, TRUE, Account(a)) ELSE row
  /\ To(a, "finally")
  /\ UNCHANGED <<file, signed, clients, store, torn>>
\* get_me or the commit fails: the file stays signed in.
SaveFails(a) ==
  /\ calls[a].op = "save"
  /\ Tear(Account(a) # 0)
  /\ To(a, "finally")
  /\ UNCHANGED <<row, file, signed, clients, store>>
\* finally: whatever is stored goes, this call's client is closed.
Finally(a) ==
  /\ calls[a].op = "finally"
  /\ store' = NoStore
  /\ clients' = Closed(clients, calls[a].client)
  /\ End(a) /\ UNCHANGED <<row, file, signed, torn>>

(* ---- sync: open the file the row names and read who it is ---- *)
BeginSync(a) ==
  /\ calls[a] = NoCall /\ row.there /\ row.session /\ Len(clients) < MaxLogins
  /\ file' = FileAfter /\ signed' = SignedAfter
  /\ LET ok == SignedAfter[FileAfter] # 0
     IN /\ clients' = Append(clients, [Opened EXCEPT !.open = ok])
        /\ calls' = IF ok THEN [calls EXCEPT ![a] = [op |-> "sync", client |-> Len(clients) + 1, row |-> row]] ELSE calls
  /\ Tear(Busy(Clearing)) /\ UNCHANGED <<row, store>>
EndSync(a) ==
  /\ calls[a].op = "sync" /\ Account(a) # 0
  /\ row' = IF row.there THEN AccountWritten(calls[a].row, calls[a].row.session, Account(a)) ELSE row
  /\ clients' = Closed(clients, calls[a].client)
  /\ End(a) /\ UNCHANGED <<file, signed, store, torn>>
SyncFails(a) ==
  /\ calls[a].op = "sync"
  /\ clients' = Closed(clients, calls[a].client)
  /\ End(a) /\ UNCHANGED <<row, file, signed, store, torn>>

(* ---- logout_persona, update_credentials and delete_persona ---- *)
\* Mutant: the file is removed, and the columns of the session are left.
ClearedCredentialsOnly(read) == [row EXCEPT !.phone = @ + 1]
Cleared(read) == [AccountWritten(read, FALSE, 0) EXCEPT !.phone = @ + 1]
BeginClear(a, op) ==
  /\ calls[a] = NoCall /\ row.there
  /\ op = "credentials" => row.phone < MaxPhones
  /\ file' = IF row.session THEN 0 ELSE file
  /\ calls' = [calls EXCEPT ![a] = [op |-> op, client |-> 0, row |-> row]]
  /\ Tear(store.client # 0 \/ Busy(Signing \cup {"request", "sync", "logout", "credentials"}))
  /\ UNCHANGED <<row, signed, clients, store>>
Logout(a) == /\ calls[a].op = "logout"
             /\ row' = IF row.there THEN AccountWritten(calls[a].row, FALSE, 0) ELSE row
             /\ End(a) /\ UNCHANGED <<file, signed, clients, store, torn>>
UpdateCredentials(a) == /\ calls[a].op = "credentials"
                        /\ row' = IF row.there THEN Cleared(calls[a].row) ELSE row
                        /\ End(a) /\ UNCHANGED <<file, signed, clients, store, torn>>
\* The commit comes before the removal of the file.
DeletePersona == /\ row.there
                 /\ row' = [row EXCEPT !.there = FALSE, !.session = FALSE, !.user = 0]
                 /\ file' = IF row.session THEN 0 ELSE file
                 /\ UNCHANGED <<signed, clients, store, calls, torn>>

(* ---- telethon_login, in a process of its own ---- *)
BeginCli(a) ==
  /\ calls[a] = NoCall /\ row.there /\ Len(clients) < MaxLogins
  /\ file' = FileAfter /\ signed' = SignedAfter
  /\ clients' = Append(clients, Opened)
  /\ calls' = [calls EXCEPT ![a] = [op |-> IF SignedAfter[FileAfter] = 0 THEN "cli" ELSE "cli save", client |-> Len(clients) + 1, row |-> row]]
  /\ Tear(Busy(Clearing))
  /\ UNCHANGED <<row, store>>
CliSave(a) ==
  /\ calls[a].op = "cli save" /\ Account(a) # 0
  /\ row' = IF row.there THEN AccountWritten(calls[a].row, TRUE, Account(a)) ELSE row
  /\ clients' = Closed(clients, calls[a].client)
  /\ End(a) /\ UNCHANGED <<file, signed, store, torn>>
CliFails(a) ==
  /\ calls[a].op \in {"cli", "cli save"}
  /\ clients' = Closed(clients, calls[a].client)
  /\ Tear(calls[a].op = "cli save" /\ Account(a) # 0)
  /\ End(a) /\ UNCHANGED <<row, file, signed, store>>

(* ---- meanwhile ---- *)
TimePasses == /\ store.client # 0 /\ ~store.old
              /\ store' = [store EXCEPT !.old = TRUE]
              /\ UNCHANGED <<row, file, signed, clients, calls, torn>>
\* Telegram ends the session of a file.
Revoked == /\ file # 0 /\ signed[file] # 0
           /\ signed' = [signed EXCEPT ![file] = 0]
           /\ UNCHANGED <<row, file, clients, store, calls, torn>>
Restart == /\ clients' = [c \in DOMAIN clients |-> [clients[c] EXCEPT !.open = FALSE]]
           /\ store' = NoStore
           /\ calls' = [a \in Admins |-> NoCall]
           /\ Tear(Busy({"save", "cli save", "logout", "credentials"}))
           /\ UNCHANGED <<row, file, signed>>

LoginNext ==
  \/ \E a \in Admins :
       \/ BeginRequest(a) \/ CodeSent(a) \/ CodeNotSent(a)
       \/ BeginVerify(a) \/ SignIn(a) \/ SignInFails(a) \/ PasswordNeeded(a) \/ Save(a) \/ SaveFails(a) \/ Finally(a)
       \/ BeginSync(a) \/ EndSync(a) \/ SyncFails(a)
       \/ BeginClear(a, "logout") \/ BeginClear(a, "credentials") \/ Logout(a) \/ UpdateCredentials(a)
       \/ BeginCli(a) \/ CliSave(a) \/ CliFails(a)
  \/ DeletePersona
  \/ TimePasses
  \/ Revoked
  \/ Restart

LoginSpec == LoginInit /\ [][LoginNext]_loginVars

(***************************************************************************)
(* Login, synchronisation, logout, change of credentials: as long as no    *)
(* call was torn, a persona whose row says it has a session has the file,  *)
(* signed in, if Telegram has not ended it, as the account in the row and  *)
(* the phone in the row; and a client that is open is one a call or the    *)
(* store will close.                                                       *)
(***************************************************************************)
RowNamesItsFile ==
  row.session /\ ~Busy(Clearing)
    => file # 0 /\ signed[file] \in {0, row.phone} /\ row.user = row.phone
NobodyLeaks ==
  \A c \in DOMAIN clients : clients[c].open => store.client = c \/ \E a \in Admins : calls[a].client = c
SessionIsThePersonas == ~torn => RowNamesItsFile /\ NobodyLeaks
=============================================================================
