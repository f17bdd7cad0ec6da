-------------------------- MODULE PersonaLoginProofs --------------------------
(***************************************************************************)
(* What holds of logging a persona in for any number of calls at a time,   *)
(* of clients opened and of phones: SessionIsThePersonas.                  *)
(*                                                                         *)
(* It is not inductive: a call that saves writes what it has read before,  *)
(* into the row of a persona that was changed since, of a client that      *)
(* another call closed.  The invariant says, while no call was torn, what  *)
(* clients and calls still have to do with the row and the file            *)
(* (OnTheFile, ReadsAreCurrent), that a file signed in ahead of its row is *)
(* in the hands of a call that saves (SignedIsSaved), and that a call that *)
(* clears the session is alone (ClearingIsAlone).                          *)
(***************************************************************************)
EXTENDS PersonaLogin, TLAPS

-----------------------------------------------------------------------------
(* The inductive invariant *)

Row == [there : BOOLEAN, phone : Nat, session : BOOLEAN, user : Nat]
Client == [open : BOOLEAN, phone : Nat, file : Nat \ {0}]
Connected == {"request", "sync"} \cup Signing
Call == [op : {"none"} \cup Connected \cup Clearing, client : Nat, row : Row]

CallOK(k, n) ==
  /\ k \in Call
  /\ k.op \in Connected => k.client \in 1 .. n
  /\ k.op \notin Connected => k.client = 0
  /\ k.op = "none" => k = NoCall

Typing ==
  /\ row \in Row /\ (row.session => row.there)
  /\ signed \in Seq(Nat) /\ file \in 0 .. Len(signed)
  /\ clients \in Seq(Client)
  /\ \A c \in 1 .. Len(clients) : clients[c].file \in 1 .. Len(signed)
  /\ store \in [client : 0 .. Len(clients), old : BOOLEAN]
  /\ calls \in [Admins -> Call] /\ \A a \in Admins : CallOK(calls[a], Len(clients))
  /\ torn \in BOOLEAN

\* The clients somebody may still use: the stored one and those of the calls.
Held == {c \in 1 .. Len(clients) : c = store.client \/ \E a \in Admins : calls[a].client = c}

\* They work on the file that is there, for the phone in the row.
OnTheFile == \A c \in Held : clients[c].file = file /\ clients[c].phone = row.phone

\* The account is in the row as long as the session is.
UserOf(r) == IF r.session THEN r.phone ELSE 0
UserIsOfPhone == row.user = UserOf(row)

\* What a call has read may miss a session that was saved since, no more.
ReadsAreCurrent ==
  \A a \in Admins : calls[a].op # "none" =>
    /\ calls[a].row.phone = row.phone /\ calls[a].row.user = UserOf(calls[a].row)
    /\ calls[a].row.session => row.session
    /\ calls[a].op = "sync" => calls[a].row.session

\* A file is signed in as the phone, and the row says so or a call will.
Saving == {"save", "cli save"}
SignedIsSaved ==
  file # 0 /\ signed[file] # 0 => signed[file] = row.phone /\ (row.session \/ Busy(Saving))

\* Who clears the session is the only call, on a row nobody else changes, and
\* has removed the file, unless nobody was signed in there.
ClearingIsAlone ==
  \A a \in Admins : calls[a].op \in Clearing =>
    /\ \A b \in Admins : b # a => calls[b].op = "none"
    /\ store.client = 0
    /\ calls[a].row.session = row.session
    /\ file # 0 => signed[file] = 0

\* A persona that is signed in has its file.
SessionHasFile == row.session /\ ~ Busy(Clearing) => file # 0

\* A verification is of the stored client, or of one that was closed when it
\* left the store.
StoreIsVerified ==
  \A a \in Admins : calls[a].op \in {"verify", "save", "finally"} =>
    \/ store.client = calls[a].client
    \/ store.client = 0 /\ ~ clients[calls[a].client].open

Kept ==
  /\ OnTheFile /\ UserIsOfPhone /\ ReadsAreCurrent
  /\ SignedIsSaved /\ ClearingIsAlone /\ SessionHasFile

LoginInv ==
  /\ Typing
  /\ ~ torn => NobodyLeaks /\ StoreIsVerified
  /\ ~ torn /\ row.there => Kept

-----------------------------------------------------------------------------
(* Clients and files *)

LEMMA ClosedClients ==
  ASSUME NEW cs \in Seq(Client), NEW c \in 0 .. Len(cs)
  PROVE  /\ Closed(cs, c) \in Seq(Client) /\ Len(Closed(cs, c)) = Len(cs)
         /\ \A i \in 1 .. Len(cs) : /\ Closed(cs, c)[i].file = cs[i].file
                                    /\ Closed(cs, c)[i].phone = cs[i].phone
                                    /\ Closed(cs, c)[i].open <=> cs[i].open /\ i # c
  <1>1. \A i \in 1 .. Len(cs) : cs[i] \in Client
    OBVIOUS
  <1>4. \A x \in Client : /\ [x EXCEPT !.open = FALSE] \in Client
                          /\ [x EXCEPT !.open = FALSE].file = x.file
                          /\ [x EXCEPT !.open = FALSE].phone = x.phone
                          /\ ~ [x EXCEPT !.open = FALSE].open
    BY DEF Client
  <1>2. CASE c = 0
    BY <1>1, <1>2 DEF Closed
  <1>3. CASE c # 0
    <2>1. Closed(cs, c) = [cs EXCEPT ![c] = [cs[c] EXCEPT !.open = FALSE]]
      BY <1>3 DEF Closed
    <2>2. Closed(cs, c) \in Seq(Client) /\ Len(Closed(cs, c)) = Len(cs)
      BY <1>1, <1>3, <1>4, <2>1
    <2>3. \A i \in 1 .. Len(cs) :
            Closed(cs, c)[i] = IF i = c THEN [cs[c] EXCEPT !.open = FALSE] ELSE cs[i]
      <3>1. DOMAIN cs = 1 .. Len(cs)
        OBVIOUS
      <3> QED BY <2>1, <3>1
    <2> QED BY <1>1, <1>4, <2>2, <2>3
  <1> QED BY <1>2, <1>3

LEMMA ClientNumbers ==
  ASSUME NEW cs \in Seq(Client)
  PROVE  /\ Len(cs) \in Nat /\ DOMAIN cs = 1 .. Len(cs)
         /\ \A c \in 1 .. Len(cs) + 1 : c # Len(cs) + 1 => c \in 1 .. Len(cs)
         /\ \A c \in 1 .. Len(cs) : c # 0 /\ c \in DOMAIN cs /\ c \in 0 .. Len(cs)
  OBVIOUS

LEMMA FileNumbers ==
  ASSUME Typing
  PROVE  Len(signed) \in Nat /\ \A f \in 1 .. Len(signed) : f # 0
  <1>1. signed \in Seq(Nat)
    BY DEF Typing
  <1> QED BY <1>1

LEMMA AppendedClient ==
  ASSUME NEW cs \in Seq(Client), NEW x \in Client
  PROVE  /\ Append(cs, x) \in Seq(Client) /\ Len(Append(cs, x)) = Len(cs) + 1
         /\ \A i \in 1 .. Len(cs) : Append(cs, x)[i] = cs[i]
         /\ Append(cs, x)[Len(cs) + 1] = x
  OBVIOUS

\* _cleanup_expired closes the stored client and no other.
LEMMA CleanedClients ==
  ASSUME Typing
  PROVE  /\ Cleaned \in Seq(Client) /\ Len(Cleaned) = Len(clients)
         /\ \A i \in 1 .. Len(clients) :
              /\ Cleaned[i].file = clients[i].file /\ Cleaned[i].phone = clients[i].phone
              /\ Cleaned[i].open <=> clients[i].open /\ ~ (store.old /\ i = store.client)
         /\ StoreCleaned \in [client : 0 .. Len(clients), old : BOOLEAN]
         /\ StoreCleaned.client = IF store.old THEN 0 ELSE store.client
  <1>1. Cleaned = IF store.old THEN Closed(clients, store.client) ELSE clients
    BY DEF Cleaned
  <1>2. store.client \in 0 .. Len(clients) /\ store.old \in BOOLEAN /\ clients \in Seq(Client)
    BY DEF Typing
  <1>3. StoreCleaned \in [client : 0 .. Len(clients), old : BOOLEAN]
    BY <1>2 DEF StoreCleaned, NoStore, Typing
  <1> QED BY <1>1, <1>2, <1>3, ClosedClients DEF StoreCleaned, NoStore

\* Opening the file that is there changes nothing; one that is made is signed
\* in as nobody.
LEMMA OpenedFile ==
  ASSUME Typing
  PROVE  /\ SignedAfter \in Seq(Nat) /\ Len(SignedAfter) \in Nat
         /\ Len(signed) <= Len(SignedAfter) /\ FileAfter \in 1 .. Len(SignedAfter)
         /\ \A i \in 1 .. Len(signed) : SignedAfter[i] = signed[i]
         /\ file # 0 => FileAfter = file /\ SignedAfter = signed
         /\ file = 0 => SignedAfter[FileAfter] = 0 /\ FileAfter \notin 1 .. Len(signed)
         /\ Opened \in Client /\ [Opened EXCEPT !.open = FALSE] \in Client
         /\ Opened.file = FileAfter /\ Opened.phone = row.phone /\ Opened.open
  <1>1. /\ signed \in Seq(Nat) /\ file \in 0 .. Len(signed) /\ row.phone \in Nat
    BY DEF Typing, Row
  <1>2. /\ SignedAfter \in Seq(Nat) /\ Len(SignedAfter) \in Nat
        /\ Len(signed) <= Len(SignedAfter) /\ FileAfter \in 1 .. Len(SignedAfter)
        /\ \A i \in 1 .. Len(signed) : SignedAfter[i] = signed[i]
        /\ file # 0 => FileAfter = file /\ SignedAfter = signed
        /\ file = 0 => SignedAfter[FileAfter] = 0 /\ FileAfter \notin 1 .. Len(signed)
    BY <1>1 DEF SignedAfter, FileAfter
  <1>3. Opened \in [open : BOOLEAN, phone : Nat, file : Nat \ {0}]
    BY <1>1, <1>2 DEF Opened
  <1>4. [Opened EXCEPT !.open = FALSE] \in Client
    BY <1>3 DEF Client
  <1> QED BY <1>1, <1>2, <1>3, <1>4 DEF Opened, Client

-----------------------------------------------------------------------------
(* Calls and the row *)

LEMMA CallReplaced ==
  ASSUME Typing, NEW a \in Admins, NEW k, NEW n \in Nat, Len(clients) <= n, CallOK(k, n),
         calls' = [calls EXCEPT ![a] = k]
  PROVE  /\ calls' \in [Admins -> Call] /\ \A b \in Admins : CallOK(calls'[b], n)
         /\ calls'[a] = k /\ \A b \in Admins : b # a => calls'[b] = calls[b]
  <1>1. /\ calls \in [Admins -> Call] /\ k \in Call
        /\ \A b \in Admins : CallOK(calls[b], n)
    BY DEF Typing, CallOK
  <1> QED BY <1>1

LEMMA CallsStay ==
  ASSUME Typing, NEW n \in Nat, Len(clients) <= n, calls' = calls
  PROVE  calls' \in [Admins -> Call] /\ \A b \in Admins : CallOK(calls'[b], n)
  BY DEF Typing, CallOK

LEMMA NoCallOK ==
  ASSUME NEW n \in Nat
  PROVE  CallOK(NoCall, n) /\ NoCall.op = "none" /\ NoCall.client = 0
  BY DEF CallOK, NoCall, Call, Row, Connected, Signing

LEMMA ConnectedCallOK ==
  ASSUME Typing, NEW n \in Nat, NEW op \in Connected, NEW c \in 1 .. n
  PROVE  CallOK([op |-> op, client |-> c, row |-> row], n)
  <1>1. c \in Nat
    OBVIOUS
  <1>2. row \in Row
    BY DEF Typing
  <1>3. op # "none"
    BY DEF Connected, Signing
  <1> QED BY <1>1, <1>2, <1>3 DEF CallOK, Call

LEMMA ClearingCallOK ==
  ASSUME Typing, NEW n \in Nat, NEW op \in Clearing
  PROVE  CallOK([op |-> op, client |-> 0, row |-> row], n)
  BY DEF CallOK, Call, Typing, Connected, Signing, Clearing

LEMMA OpChanged ==
  ASSUME Typing, NEW a \in Admins, calls[a].op \in Connected,
         NEW op \in Connected, To(a, op)
  PROVE  /\ calls' \in [Admins -> Call] /\ \A b \in Admins : CallOK(calls'[b], Len(clients))
         /\ calls'[a].op = op /\ calls'[a].client = calls[a].client /\ calls'[a].row = calls[a].row
         /\ \A b \in Admins : b # a => calls'[b] = calls[b]
  <1> DEFINE k == [calls[a] EXCEPT !.op = op]
  <1>1. calls[a] \in Call /\ CallOK(calls[a], Len(clients)) /\ Len(clients) \in Nat
    BY DEF Typing
  <1>2. k.op = op /\ k.client = calls[a].client /\ k.row = calls[a].row /\ k \in Call
    BY <1>1 DEF Call
  <1>3. CallOK(k, Len(clients))
    BY <1>1, <1>2 DEF CallOK, Connected, Signing
  <1>4. calls' = [calls EXCEPT ![a] = k]
    BY DEF To
  <1> HIDE DEF k
  <1>5. Len(clients) <= Len(clients)
    BY <1>1
  <1>6. /\ calls' \in [Admins -> Call] /\ \A b \in Admins : CallOK(calls'[b], Len(clients))
        /\ calls'[a] = k /\ \A b \in Admins : b # a => calls'[b] = calls[b]
    BY <1>1, <1>3, <1>4, <1>5, CallReplaced
  <1> QED BY <1>2, <1>6

LEMMA CallEnds ==
  ASSUME Typing, NEW a \in Admins, End(a)
  PROVE  /\ calls' \in [Admins -> Call] /\ \A b \in Admins : CallOK(calls'[b], Len(clients))
         /\ calls'[a] = NoCall
         /\ \A b \in Admins : b # a => calls'[b] = calls[b]
  <1>1. Len(clients) \in Nat /\ Len(clients) <= Len(clients)
    BY DEF Typing
  <1>2. CallOK(NoCall, Len(clients))
    BY <1>1, NoCallOK
  <1> QED BY <1>1, <1>2, CallReplaced DEF End

LEMMA WrittenRow ==
  ASSUME Typing, NEW read \in Row, NEW session \in BOOLEAN, NEW user \in Nat
  PROVE  LET w == AccountWritten(read, session, user)
         IN  /\ w \in Row /\ w.there = row.there /\ w.phone = row.phone
             /\ w.session = IF session = read.session THEN row.session ELSE session
             /\ w.user = IF user = read.user THEN row.user ELSE user
  <1> DEFINE s == IF session = read.session THEN row.session ELSE session
             u == IF user = read.user THEN row.user ELSE user
             one == [row EXCEPT !.session = s]
             w == AccountWritten(read, session, user)
  <1>1. row \in Row /\ s \in BOOLEAN /\ u \in Nat
    BY DEF Typing, Row
  <1>2. /\ one \in Row /\ one.there = row.there /\ one.phone = row.phone
        /\ one.session = s /\ one.user = row.user
    BY <1>1 DEF Row
  <1>3. w = [one EXCEPT !.user = u]
    BY <1>1, <1>2 DEF AccountWritten, Row
  <1> HIDE DEF one
  <1>4. /\ w \in Row /\ w.there = row.there /\ w.phone = row.phone
        /\ w.session = s /\ w.user = u
    BY <1>1, <1>2, <1>3 DEF Row
  <1> QED BY <1>4

-----------------------------------------------------------------------------
(* Typing *)

\* A call that only ends, or goes on.
LEMMA OnlyTheCall ==
  ASSUME Typing, UNCHANGED <<row, file, signed, clients, store>>, torn' \in BOOLEAN,
         calls' \in [Admins -> Call], \A b \in Admins : CallOK(calls'[b], Len(clients))
  PROVE  Typing'
  BY DEF Typing

\* A call that closes clients and empties or fills the store.
LEMMA ClientsClose ==
  ASSUME Typing, UNCHANGED <<row, file, signed>>, torn' \in BOOLEAN,
         clients' \in Seq(Client), Len(clients') = Len(clients),
         \A c \in 1 .. Len(clients) : clients'[c].file = clients[c].file,
         store' \in [client : 0 .. Len(clients), old : BOOLEAN],
         calls' \in [Admins -> Call], \A b \in Admins : CallOK(calls'[b], Len(clients))
  PROVE  Typing'
  BY DEF Typing

\* A call that opens a client, on the file that is there or on a new one.
LEMMA ClientOpens ==
  ASSUME Typing, UNCHANGED row, torn' \in BOOLEAN,
         file' = FileAfter, signed' = SignedAfter,
         NEW cs \in Seq(Client), NEW x \in Client, clients' = Append(cs, x), Len(cs) = Len(clients),
         \A c \in 1 .. Len(clients) : cs[c].file = clients[c].file, x.file = FileAfter,
         store' \in [client : 0 .. Len(clients), old : BOOLEAN],
         calls' \in [Admins -> Call], \A b \in Admins : CallOK(calls'[b], Len(clients) + 1)
  PROVE  Typing'
  <1>1. /\ clients' \in Seq(Client) /\ Len(clients') = Len(clients) + 1 /\ Len(clients) \in Nat
        /\ \A c \in 1 .. Len(clients) : clients'[c].file = clients[c].file
        /\ clients'[Len(clients) + 1].file = FileAfter
    <2>1. Len(clients) \in Nat
      BY DEF Typing
    <2> QED BY <2>1, AppendedClient
  <1>2. file' \in 0 .. Len(signed') /\ signed' \in Seq(Nat)
    BY OpenedFile
  <1>3. \A c \in 1 .. Len(clients') : clients'[c].file \in 1 .. Len(signed')
    <2> SUFFICES ASSUME NEW c \in 1 .. Len(clients') PROVE clients'[c].file \in 1 .. Len(signed')
      OBVIOUS
    <2>1. CASE c = Len(clients) + 1
      BY <1>1, <2>1, OpenedFile
    <2>2. CASE c \in 1 .. Len(clients)
      <3>1. clients[c].file \in 1 .. Len(signed) /\ Len(signed) \in Nat
        BY <2>2 DEF Typing
      <3> QED BY <1>1, <2>2, <3>1, OpenedFile
    <2> QED BY <1>1, <2>1, <2>2
  <1>4. store' \in [client : 0 .. Len(clients'), old : BOOLEAN]
    BY <1>1
  <1> QED BY <1>1, <1>2, <1>3, <1>4 DEF Typing

\* An UPDATE of the row by a call that ends or goes on.
LEMMA RowWritten ==
  ASSUME Typing, UNCHANGED <<signed, store>>, torn' \in BOOLEAN, file' \in {0, file},
         row' \in Row, row'.session => row'.there,
         clients' \in Seq(Client), Len(clients') = Len(clients),
         \A c \in 1 .. Len(clients) : clients'[c].file = clients[c].file,
         calls' \in [Admins -> Call], \A b \in Admins : CallOK(calls'[b], Len(clients))
  PROVE  Typing'
  <1>1. file' \in 0 .. Len(signed') /\ signed' \in Seq(Nat)
    BY DEF Typing
  <1>2. store' \in [client : 0 .. Len(clients'), old : BOOLEAN]
    BY DEF Typing
  <1>3. \A c \in 1 .. Len(clients') : clients'[c].file \in 1 .. Len(signed')
    BY DEF Typing
  <1> QED BY <1>1, <1>2, <1>3 DEF Typing

\* get_me: the account of the file of the call's client.
LEMMA AccountRead ==
  ASSUME Typing, NEW a \in Admins, calls[a].op \in Connected
  PROVE  /\ calls[a].client \in 1 .. Len(clients)
         /\ clients[calls[a].client].file \in 1 .. Len(signed)
         /\ Account(a) = signed[clients[calls[a].client].file]
         /\ Account(a) \in Nat /\ calls[a].row \in Row
  BY DEF Typing, CallOK, Call, Account

LEMMA TypingHolds == Typing /\ [LoginNext]_loginVars => Typing'
  <1> SUFFICES ASSUME Typing, [LoginNext]_loginVars PROVE Typing'
    OBVIOUS
  <1>0. /\ torn \in BOOLEAN /\ Len(clients) \in Nat /\ clients \in Seq(Client)
        /\ store \in [client : 0 .. Len(clients), old : BOOLEAN]
        /\ row \in Row /\ Len(signed) \in Nat
        /\ NoStore \in [client : 0 .. Len(clients), old : BOOLEAN]
    BY DEF Typing, NoStore
  <1>00. /\ Len(clients) + 1 \in Nat /\ Len(clients) <= Len(clients) + 1
         /\ Len(clients) + 1 \in 1 .. Len(clients) + 1
    <2>1. \A n \in Nat : n + 1 \in Nat /\ n <= n + 1 /\ n + 1 \in 1 .. n + 1
      OBVIOUS
    <2> QED BY <1>0, <2>1
  <1>1. ASSUME NEW a \in Admins, BeginRequest(a) PROVE Typing'
    <2>1. torn' \in BOOLEAN
      BY <1>0, <1>1 DEF BeginRequest, Tear, Busy
    <2>2. store' \in [client : 0 .. Len(clients), old : BOOLEAN]
      BY <1>1, CleanedClients DEF BeginRequest
    <2>3. calls' \in [Admins -> Call] /\ \A b \in Admins : CallOK(calls'[b], Len(clients) + 1)
      <3>1. CASE SignedAfter[FileAfter] # 0
        BY <1>0, <1>1, <3>1, CallsStay DEF BeginRequest
      <3>2. CASE SignedAfter[FileAfter] = 0
        <4>1. CallOK([op |-> "request", client |-> Len(clients) + 1, row |-> row], Len(clients) + 1)
          BY <1>0, ConnectedCallOK DEF Connected
        <4>2. Len(clients) + 1 \in Nat /\ Len(clients) <= Len(clients) + 1
          BY <1>0
        <4> QED BY <1>1, <3>2, <4>1, <4>2, CallReplaced DEF BeginRequest
      <3> QED BY <3>1, <3>2
    <2>4. PICK x \in Client : clients' = Append(Cleaned, x) /\ x.file = FileAfter
      BY <1>1, OpenedFile DEF BeginRequest, Client
    <2> QED BY <1>1, <2>1, <2>2, <2>3, <2>4, CleanedClients, ClientOpens DEF BeginRequest
  <1>2. ASSUME NEW a \in Admins, BeginSync(a) \/ BeginCli(a) PROVE Typing'
    <2>1. torn' \in BOOLEAN /\ store' = store
      BY <1>0, <1>2 DEF BeginSync, BeginCli, Tear, Busy
    <2>2. calls' \in [Admins -> Call] /\ \A b \in Admins : CallOK(calls'[b], Len(clients) + 1)
      <3>1. CASE calls' = calls
        BY <1>0, <3>1, CallsStay
      <3>2. ASSUME NEW op \in {"sync", "cli", "cli save"},
                   calls' = [calls EXCEPT ![a] = [op |-> op, client |-> Len(clients) + 1, row |-> row]]
            PROVE  calls' \in [Admins -> Call] /\ \A b \in Admins : CallOK(calls'[b], Len(clients) + 1)
        <4>1. CallOK([op |-> op, client |-> Len(clients) + 1, row |-> row], Len(clients) + 1)
          <5>1. op \in Connected
            BY DEF Connected, Signing
          <5> QED BY <1>00, <5>1, ConnectedCallOK
        <4>2. Len(clients) + 1 \in Nat /\ Len(clients) <= Len(clients) + 1
          BY <1>00
        <4> QED BY <3>2, <4>1, <4>2, CallReplaced
      <3> QED BY <1>2, <3>1, <3>2 DEF BeginSync, BeginCli
    <2>3. PICK x \in Client : clients' = Append(clients, x) /\ x.file = FileAfter
      <3>1. CASE BeginSync(a)
        <4>1. Opened = [Opened EXCEPT !.open = TRUE]
          BY OpenedFile DEF Opened
        <4> QED BY <3>1, <4>1, OpenedFile DEF BeginSync, Client
      <3>2. CASE BeginCli(a)
        BY <3>2, OpenedFile DEF BeginCli
      <3> QED BY <1>2, <3>1, <3>2
    <2> QED BY <1>0, <1>2, <2>1, <2>2, <2>3, ClientOpens DEF BeginSync, BeginCli
  <1>3. ASSUME NEW a \in Admins, CodeSent(a) PROVE Typing'
    <2>1. torn' \in BOOLEAN /\ calls[a].client \in 0 .. Len(clients)
      BY <1>0, <1>3, AccountRead DEF CodeSent, Tear, Busy, Connected
    <2>2. store' \in [client : 0 .. Len(clients), old : BOOLEAN]
      BY <1>3, <2>1 DEF CodeSent
    <2>3. clients' = Closed(clients, store.client) /\ store.client \in 0 .. Len(clients)
      BY <1>0, <1>3 DEF CodeSent
    <2> QED BY <1>0, <1>3, <2>1, <2>2, <2>3, ClosedClients, CallEnds, ClientsClose DEF CodeSent
  <1>4. ASSUME NEW a \in Admins, CodeNotSent(a) \/ Finally(a) \/ SyncFails(a) \/ CliFails(a)
        PROVE  Typing'
    <2>1. /\ torn' \in BOOLEAN /\ End(a) /\ calls[a].op \in Connected
          /\ clients' = Closed(clients, calls[a].client)
          /\ store' \in [client : 0 .. Len(clients), old : BOOLEAN]
          /\ UNCHANGED <<row, file, signed>>
      BY <1>0, <1>4 DEF CodeNotSent, Finally, SyncFails, CliFails, Tear, Connected, Signing
    <2> QED BY <1>0, <2>1, AccountRead, ClosedClients, CallEnds, ClientsClose
  <1>5. ASSUME NEW a \in Admins, BeginVerify(a) PROVE Typing'
    <2>1. torn' \in BOOLEAN
      BY <1>0, <1>5 DEF BeginVerify, Tear, Busy
    <2>2. calls' \in [Admins -> Call] /\ \A b \in Admins : CallOK(calls'[b], Len(clients))
      <3>1. CallOK([op |-> "verify", client |-> store.client, row |-> row], Len(clients))
        <4>1. "verify" \in Connected /\ store.client \in 1 .. Len(clients)
          BY <1>0, <1>5 DEF Connected, Signing, BeginVerify
        <4> QED BY <1>0, <4>1, ConnectedCallOK
      <3>2. CallOK(NoCall, Len(clients)) /\ Len(clients) <= Len(clients)
        BY <1>0, NoCallOK
      <3> QED BY <1>0, <1>5, <3>1, <3>2, CallReplaced DEF BeginVerify
    <2> QED BY <1>5, <2>1, <2>2, CleanedClients, ClientsClose DEF BeginVerify
  <1>6. ASSUME NEW a \in Admins, SignInFails(a) \/ SaveFails(a) PROVE Typing'
    <2>1. torn' \in BOOLEAN
      BY <1>0, <1>6 DEF SignInFails, SaveFails, Tear
    <2> QED BY <1>6, <2>1, OpChanged, OnlyTheCall DEF SignInFails, SaveFails, Connected, Signing
  <1>7. ASSUME NEW a \in Admins, PasswordNeeded(a) PROVE Typing'
    BY <1>0, <1>7, CallEnds, OnlyTheCall DEF PasswordNeeded
  <1>8. ASSUME NEW a \in Admins, SignIn(a) PROVE Typing'
    <2>1. /\ calls[a].client \in 1 .. Len(clients)
          /\ clients[calls[a].client].file \in 1 .. Len(signed)
          /\ clients[calls[a].client].phone \in Nat
      <3>1. calls[a].op \in Connected
        BY <1>8 DEF SignIn, Connected, Signing
      <3>2. \A c \in 1 .. Len(clients) : clients[c] \in Client
        BY <1>0
      <3> QED BY <3>1, <3>2, AccountRead DEF Client
    <2>2. signed \in Seq(Nat)
      BY DEF Typing
    <2>3. signed' \in Seq(Nat) /\ Len(signed') = Len(signed)
      <3>1. signed' = [signed EXCEPT ![clients[calls[a].client].file] = clients[calls[a].client].phone]
        BY <1>8 DEF SignIn
      <3> QED BY <2>1, <2>2, <3>1
    <2>4. calls' \in [Admins -> Call] /\ \A b \in Admins : CallOK(calls'[b], Len(clients))
      BY <1>8, OpChanged DEF SignIn, Connected, Signing
    <2> QED BY <1>0, <1>8, <2>3, <2>4 DEF SignIn, Typing
  <1>9. ASSUME NEW a \in Admins, Save(a) PROVE Typing'
    <2>1. row' \in Row /\ (row'.session => row'.there)
      BY <1>0, <1>9, AccountRead, WrittenRow DEF Save, Connected, Signing, Typing
    <2> QED BY <1>0, <1>9, <2>1, OpChanged, RowWritten DEF Save, Connected, Signing
  <1>10. ASSUME NEW a \in Admins, EndSync(a) \/ CliSave(a) PROVE Typing'
    <2>1. calls[a].op \in Connected /\ calls[a].row.session \in BOOLEAN
      BY <1>10, AccountRead DEF EndSync, CliSave, Connected, Signing, Row
    <2>2. row' \in Row /\ (row'.session => row'.there)
      <3>1. /\ row' \in {row, AccountWritten(calls[a].row, calls[a].row.session, Account(a)),
                          AccountWritten(calls[a].row, TRUE, Account(a))}
            /\ row' = row \/ row.there
        BY <1>10 DEF EndSync, CliSave
      <3>2. \A s \in BOOLEAN :
              /\ AccountWritten(calls[a].row, s, Account(a)) \in Row
              /\ AccountWritten(calls[a].row, s, Account(a)).there = row.there
        BY <2>1, AccountRead, WrittenRow
      <3>3. row.session => row.there
        BY DEF Typing
      <3> QED BY <1>0, <2>1, <3>1, <3>2, <3>3
    <2>3. /\ clients' \in Seq(Client) /\ Len(clients') = Len(clients)
          /\ \A c \in 1 .. Len(clients) : clients'[c].file = clients[c].file
      <3>1. clients' = Closed(clients, calls[a].client) /\ calls[a].client \in 0 .. Len(clients)
        <4>1. clients' = Closed(clients, calls[a].client)
          BY <1>10 DEF EndSync, CliSave
        <4>2. calls[a].client \in 1 .. Len(clients)
          BY <2>1, AccountRead
        <4> QED BY <1>0, <4>1, <4>2
      <3> QED BY <1>0, <3>1, ClosedClients
    <2> QED BY <1>0, <1>10, <2>2, <2>3, CallEnds, RowWritten DEF EndSync, CliSave
  <1>11. ASSUME NEW a \in Admins, NEW op \in Clearing, BeginClear(a, op) PROVE Typing'
    <2>1. torn' \in BOOLEAN /\ file' \in {0, file}
      BY <1>0, <1>11 DEF BeginClear, Tear, Busy
    <2>2. CallOK([op |-> op, client |-> 0, row |-> row], Len(clients)) /\ Len(clients) <= Len(clients)
      BY <1>0, ClearingCallOK
    <2>3. calls' \in [Admins -> Call] /\ \A b \in Admins : CallOK(calls'[b], Len(clients))
      BY <1>0, <1>11, <2>2, CallReplaced DEF BeginClear
    <2> QED BY <1>0, <1>11, <2>1, <2>3, RowWritten DEF BeginClear, Typing
  <1>12. ASSUME NEW a \in Admins, Logout(a) \/ UpdateCredentials(a) PROVE Typing'
    <2>1. calls[a].row \in Row
      BY DEF Typing, Call
    <2>2. /\ AccountWritten(calls[a].row, FALSE, 0) \in Row
          /\ AccountWritten(calls[a].row, FALSE, 0).there = row.there
          /\ AccountWritten(calls[a].row, FALSE, 0).session => row.session
      <3>1. \A s \in BOOLEAN, u \in Nat :
              /\ AccountWritten(calls[a].row, s, u) \in Row
              /\ AccountWritten(calls[a].row, s, u).there = row.there
              /\ AccountWritten(calls[a].row, s, u).session =
                   IF s = calls[a].row.session THEN row.session ELSE s
        BY <2>1, WrittenRow
      <3> QED BY <2>1, <3>1 DEF Row
    <2>3. /\ Cleared(calls[a].row) \in Row
          /\ Cleared(calls[a].row).there = row.there
          /\ Cleared(calls[a].row).session => row.session
      <3>1. \A w \in Row : /\ [w EXCEPT !.phone = @ + 1] \in Row
                            /\ [w EXCEPT !.phone = @ + 1].there = w.there
                            /\ [w EXCEPT !.phone = @ + 1].session = w.session
        BY DEF Row
      <3> QED BY <2>2, <3>1 DEF Cleared
    <2>4. row' \in Row /\ (row'.session => row'.there)
      BY <1>0, <1>12, <2>2, <2>3 DEF Logout, UpdateCredentials, Typing
    <2> QED BY <1>0, <1>12, <2>4, CallEnds, RowWritten DEF Logout, UpdateCredentials
  <1>13. CASE DeletePersona
    <2>1. row' \in Row /\ (row'.session => row'.there)
      BY <1>0, <1>13 DEF DeletePersona, Row
    <2> QED BY <1>0, <1>13, <2>1, RowWritten DEF DeletePersona, Typing
  <1>14. CASE TimePasses
    BY <1>0, <1>14, ClientsClose DEF TimePasses, Typing
  <1>15. CASE Revoked
    BY <1>15 DEF Revoked, Typing
  <1>16. CASE Restart
    <2>1. /\ clients' \in Seq(Client) /\ Len(clients') = Len(clients)
          /\ \A c \in 1 .. Len(clients) : clients'[c].file = clients[c].file
      <3>1. \A c \in 1 .. Len(clients) : /\ [clients[c] EXCEPT !.open = FALSE] \in Client
                                         /\ [clients[c] EXCEPT !.open = FALSE].file = clients[c].file
        <4>1. \A x \in Client : [x EXCEPT !.open = FALSE] \in Client /\ [x EXCEPT !.open = FALSE].file = x.file
          BY DEF Client
        <4> QED BY <1>0, <4>1
      <3>2. clients' = [c \in 1 .. Len(clients) |-> [clients[c] EXCEPT !.open = FALSE]]
        <4>1. DOMAIN clients = 1 .. Len(clients)
          BY <1>0
        <4> QED BY <1>16, <4>1 DEF Restart
      <3>3. clients' \in [1 .. Len(clients) -> Client]
        BY <3>1, <3>2
      <3>4. clients' \in Seq(Client) /\ Len(clients') = Len(clients)
        BY <1>0, <3>3
      <3> QED BY <3>1, <3>2, <3>4
    <2>2. calls' \in [Admins -> Call] /\ \A b \in Admins : CallOK(calls'[b], Len(clients))
      BY <1>0, <1>16, NoCallOK DEF Restart, CallOK
    <2>3. torn' \in BOOLEAN
      BY <1>0, <1>16 DEF Restart, Tear, Busy
    <2> QED BY <1>0, <1>16, <2>1, <2>2, <2>3, ClientsClose DEF Restart
  <1>17. CASE UNCHANGED loginVars
    BY <1>17 DEF loginVars, Typing
  <1> QED BY <1>1, <1>2, <1>3, <1>4, <1>5, <1>6, <1>7, <1>8, <1>9, <1>10, <1>11, <1>12,
             <1>13, <1>14, <1>15, <1>16, <1>17 DEF LoginNext, Clearing

-----------------------------------------------------------------------------
(* Calls that go on or end *)

\* The call of a takes op, or ends, and everybody else's stays.
CallMoves(a) ==
  /\ calls'[a].op \notin Clearing
  /\ calls'[a].op = "none" => calls'[a].client = 0
  /\ calls'[a].op # "none" =>
       /\ calls'[a].client = calls[a].client /\ calls'[a].row = calls[a].row
       /\ calls'[a].op = "sync" => calls[a].op = "sync"
  /\ \A b \in Admins : b # a => calls'[b] = calls[b]

\* Clients keep their file and their phone.
ClientsStay ==
  /\ Len(clients') = Len(clients)
  /\ \A c \in 1 .. Len(clients) : clients'[c].file = clients[c].file /\ clients'[c].phone = clients[c].phone

LEMMA NobodyClears ==
  ASSUME ClearingIsAlone, NEW a \in Admins, calls[a].op \in Connected
  PROVE  ~ Busy(Clearing)
  BY DEF ClearingIsAlone, Busy, Connected, Signing, Clearing

LEMMA EndedCall ==
  ASSUME Typing, NEW a \in Admins, End(a)
  PROVE  CallMoves(a) /\ calls'[a].op = "none" /\ calls'[a].client = 0
  BY CallEnds DEF CallMoves, NoCall, Clearing

LEMMA MovedCall ==
  ASSUME Typing, NEW a \in Admins, calls[a].op \in Signing,
         NEW op \in Signing, To(a, op)
  PROVE  CallMoves(a) /\ calls'[a].op = op /\ calls'[a].client = calls[a].client
  <1>1. calls[a].op \in Connected /\ op \in Connected /\ op \notin Clearing /\ op \notin {"none", "sync"}
    BY DEF Connected, Signing, Clearing
  <1>2. /\ calls'[a].op = op /\ calls'[a].client = calls[a].client /\ calls'[a].row = calls[a].row
        /\ \A b \in Admins : b # a => calls'[b] = calls[b]
    BY <1>1, OpChanged
  <1> QED BY <1>1, <1>2 DEF CallMoves

LEMMA GoesOn ==
  ASSUME Typing, Kept, NEW a \in Admins, calls[a].op \in Connected,
         UNCHANGED <<row, file, signed>>, CallMoves(a), ClientsStay,
         store'.client \in {0, store.client, calls[a].client},
         file # 0 /\ signed[file] # 0 /\ calls[a].op \in Saving =>
           calls'[a].op \in Saving \/ row.session
  PROVE  Kept'
  <1>0. ~ Busy(Clearing) /\ ~ Busy(Clearing)'
    BY NobodyClears DEF Kept, Busy, CallMoves
  <1>1. Held' \subseteq Held
    <2> SUFFICES ASSUME NEW c \in 1 .. Len(clients),
                        c = store'.client \/ \E b \in Admins : calls'[b].client = c
                 PROVE  c = store.client \/ \E b \in Admins : calls[b].client = c
      BY DEF Held, ClientsStay
    <2>1. c # 0
      BY DEF Typing
    <2> QED BY <2>1 DEF CallMoves
  <1>2. OnTheFile'
    BY <1>1 DEF Kept, OnTheFile, ClientsStay, Held
  <1>3. UserIsOfPhone' /\ ReadsAreCurrent'
    <2>1. UserIsOfPhone'
      BY DEF Kept, UserIsOfPhone, UserOf
    <2>2. ASSUME NEW b \in Admins, calls'[b].op # "none"
          PROVE  calls[b].op # "none" /\ calls'[b].row = calls[b].row /\ (calls'[b].op = "sync" => calls[b].op = "sync")
      <3>1. calls[a].op # "none"
        BY DEF Connected, Signing
      <3> QED BY <2>2, <3>1 DEF CallMoves
    <2> QED BY <2>1, <2>2 DEF Kept, ReadsAreCurrent, UserOf
  <1>4. SignedIsSaved'
    BY DEF Kept, SignedIsSaved, Busy, CallMoves
  <1>5. ClearingIsAlone'
    BY <1>0 DEF ClearingIsAlone, Busy
  <1>6. SessionHasFile'
    BY <1>0 DEF Kept, SessionHasFile
  <1> QED BY <1>2, <1>3, <1>4, <1>5, <1>6 DEF Kept

\* What is to be shown of a step.
Good == NobodyLeaks /\ StoreIsVerified /\ (row.there => Kept)

LEMMA GoodOfInv ==
  ASSUME LoginInv, ~ torn
  PROVE  Typing /\ Good
  BY DEF LoginInv, Good

LEMMA GoesOnHolds ==
  ASSUME LoginInv, ~ torn', NEW a \in Admins,
         CodeNotSent(a) \/ SignInFails(a) \/ SaveFails(a) \/ Finally(a) \/ SyncFails(a) \/ CliFails(a)
  PROVE  Good'
  <1>1. ~ torn /\ Typing /\ Good
    <2>1. ~ torn
      BY DEF CodeNotSent, SignInFails, SaveFails, Finally, SyncFails, CliFails, Tear
    <2> QED BY <2>1, GoodOfInv
  <1>2. calls[a].op \in Connected /\ UNCHANGED <<row, file, signed>>
    BY DEF CodeNotSent, SignInFails, SaveFails, Finally, SyncFails, CliFails, Connected, Signing
  <1>3. calls[a].client \in 1 .. Len(clients) /\ clients \in Seq(Client) /\ Len(clients) \in Nat
    BY <1>1, <1>2, AccountRead DEF Typing
  <1>4. CallMoves(a) /\ (calls'[a].op = "none" \/ (calls'[a].op = "finally" /\ calls'[a].client = calls[a].client))
    BY <1>1, EndedCall, MovedCall
    DEF CodeNotSent, SignInFails, SaveFails, Finally, SyncFails, CliFails, Signing
  <1>5. \/ clients' = clients /\ calls'[a].op = "finally"
        \/ clients' = Closed(clients, calls[a].client) /\ calls'[a].op = "none"
    BY <1>1, EndedCall, MovedCall
    DEF CodeNotSent, SignInFails, SaveFails, Finally, SyncFails, CliFails, Signing
  <1>6. ClientsStay /\ \A c \in 1 .. Len(clients) : clients'[c].open =>
          clients[c].open /\ (calls'[a].op = "none" => c # calls[a].client)
    BY <1>3, <1>5, ClosedClients DEF ClientsStay
  <1>7. store' = store \/ (store'.client = 0 /\ calls[a].op = "finally")
    <2>1. store' = store \/ Finally(a)
      BY DEF CodeNotSent, SignInFails, SaveFails, SyncFails, CliFails
    <2> QED BY <2>1 DEF Finally, NoStore
  <1>8. NobodyLeaks'
    <2>1. store.client \in {0, calls[a].client} \/ store' = store
      BY <1>1, <1>7 DEF Good, StoreIsVerified
    <2> SUFFICES ASSUME NEW c \in 1 .. Len(clients), clients'[c].open
                 PROVE  store'.client = c \/ \E b \in Admins : calls'[b].client = c
      BY <1>3, <1>6 DEF NobodyLeaks, ClientsStay, Typing
    <2>2. store.client = c \/ \E b \in Admins : calls[b].client = c
      BY <1>1, <1>3, <1>6 DEF Good, NobodyLeaks
    <2> QED BY <1>3, <1>4, <1>6, <1>7, <2>1, <2>2 DEF CallMoves
  <1>9. StoreIsVerified'
    <2> SUFFICES ASSUME NEW b \in Admins, calls'[b].op \in {"verify", "save", "finally"}
                 PROVE  \/ store'.client = calls'[b].client
                        \/ store'.client = 0 /\ ~ clients'[calls'[b].client].open
      BY DEF StoreIsVerified
    <2>1. /\ calls[b].op \in {"verify", "save", "finally"} /\ calls'[b].client = calls[b].client
          /\ calls'[a].op = "none" => b # a
      <3>1. CASE b = a
        <4>1. calls'[a].op = "finally" /\ calls'[a].client = calls[a].client
          BY <1>4, <3>1
        <4>2. calls[a].op \in {"verify", "save", "finally"}
          BY <4>1, <1>1, EndedCall DEF CodeNotSent, SignInFails, SaveFails, Finally, SyncFails, CliFails
        <4> QED BY <3>1, <4>1, <4>2
      <3>2. CASE b # a
        BY <1>4, <3>2 DEF CallMoves
      <3> QED BY <3>1, <3>2
    <2>2. calls[b].client \in 1 .. Len(clients)
      BY <1>1, <2>1, AccountRead DEF Connected, Signing
    <2>3. \/ store.client = calls[b].client
          \/ store.client = 0 /\ ~ clients[calls[b].client].open
      BY <1>1, <2>1 DEF Good, StoreIsVerified
    <2>4. CASE Finally(a)
      <3>1. calls[a].op = "finally" /\ store'.client = 0 /\ calls'[a].op = "none"
        BY <1>1, <2>4, EndedCall DEF Finally, NoStore
      <3>2. \/ store.client = calls[a].client
            \/ store.client = 0 /\ ~ clients[calls[a].client].open
        BY <1>1, <3>1 DEF Good, StoreIsVerified
      <3> QED BY <1>6, <2>1, <2>2, <2>3, <3>1, <3>2
    <2>5. CASE store' = store
      BY <1>6, <2>1, <2>2, <2>3, <2>5
    <2> QED BY <2>4, <2>5 DEF CodeNotSent, SignInFails, SaveFails, SyncFails, CliFails
  <1>10. ASSUME row'.there PROVE Kept'
    <2>1. Kept
      BY <1>1, <1>2, <1>10 DEF Good
    <2>2. file # 0 /\ signed[file] # 0 /\ calls[a].op \in Saving =>
            calls'[a].op \in Saving \/ row.session
      <3>1. calls[a].client \in Held
        BY <1>3 DEF Held
      <3>2. clients[calls[a].client].file = file
        BY <2>1, <3>1 DEF Kept, OnTheFile
      <3>3. calls[a].op \in Saving => Account(a) = 0
        BY DEF CodeNotSent, SignInFails, SaveFails, Finally, SyncFails, CliFails, Tear, Saving
      <3> QED BY <3>2, <3>3 DEF Account
    <2> QED BY <1>1, <1>2, <1>4, <1>6, <1>7, <2>1, <2>2, GoesOn
  <1> QED BY <1>8, <1>9, <1>10 DEF Good

\* The code is sent: the client is the stored one from now on, and the stored
\* one before is closed.
LEMMA CodeSentHolds ==
  ASSUME LoginInv, ~ torn', NEW a \in Admins, CodeSent(a)
  PROVE  Good'
  <1>1. ~ torn /\ ~ Busy(Signing)
    BY DEF CodeSent, Tear
  <1>2. Typing /\ Good
    BY <1>1, GoodOfInv
  <1>3. calls[a].op \in Connected /\ calls[a].op = "request" /\ UNCHANGED <<row, file, signed>>
    BY DEF CodeSent, Connected
  <1>4. /\ calls[a].client \in 1 .. Len(clients) /\ clients \in Seq(Client) /\ Len(clients) \in Nat
        /\ store.client \in 0 .. Len(clients)
    BY <1>2, <1>3, AccountRead DEF Typing
  <1>5. CallMoves(a) /\ calls'[a].op = "none" /\ store'.client = calls[a].client
    BY <1>2, EndedCall DEF CodeSent
  <1>6. ClientsStay /\ \A c \in 1 .. Len(clients) : clients'[c].open => clients[c].open /\ c # store.client
    <2>1. clients' = Closed(clients, store.client)
      BY DEF CodeSent
    <2> QED BY <1>4, <2>1, ClosedClients DEF ClientsStay
  <1>7. NobodyLeaks'
    <2> SUFFICES ASSUME NEW c \in 1 .. Len(clients), clients'[c].open
                 PROVE  store'.client = c \/ \E b \in Admins : calls'[b].client = c
      BY <1>2, TypingHolds, <1>4, <1>6 DEF NobodyLeaks, ClientsStay, CodeSent, Closed
    <2> QED BY <1>2, <1>4, <1>5, <1>6 DEF Good, NobodyLeaks, CallMoves
  <1>8. StoreIsVerified'
    BY <1>1, <1>5 DEF StoreIsVerified, CallMoves, Busy, Signing
  <1>9. ASSUME row'.there PROVE Kept'
    BY <1>2, <1>3, <1>5, <1>6, <1>9, GoesOn DEF Good, Saving
  <1> QED BY <1>7, <1>8, <1>9 DEF Good

\* The second factor is asked for: an open client is still the stored one.
LEMMA PasswordHolds ==
  ASSUME LoginInv, ~ torn', NEW a \in Admins, PasswordNeeded(a)
  PROVE  Good'
  <1>1. ~ torn /\ Typing /\ Good
    BY GoodOfInv DEF PasswordNeeded
  <1>2. /\ calls[a].op \in Connected /\ calls[a].op = "verify"
        /\ UNCHANGED <<row, file, signed, clients, store>>
    BY DEF PasswordNeeded, Connected, Signing
  <1>3. CallMoves(a) /\ calls'[a].op = "none" /\ ClientsStay
    BY <1>1, <1>2, EndedCall DEF PasswordNeeded, ClientsStay
  <1>4. /\ calls[a].client \in 1 .. Len(clients) /\ clients \in Seq(Client)
        /\ store.client = calls[a].client
    BY <1>1, <1>2, AccountRead DEF Good, StoreIsVerified, PasswordNeeded, Typing
  <1>5. NobodyLeaks'
    <2> SUFFICES ASSUME NEW c \in 1 .. Len(clients), clients[c].open
                 PROVE  store.client = c \/ \E b \in Admins : calls'[b].client = c
      BY <1>2, <1>4 DEF NobodyLeaks
    <2> QED BY <1>1, <1>3, <1>4 DEF Good, NobodyLeaks, CallMoves
  <1>6. StoreIsVerified'
    BY <1>1, <1>2, <1>3 DEF Good, StoreIsVerified, CallMoves
  <1>7. ASSUME row'.there PROVE Kept'
    BY <1>1, <1>2, <1>3, <1>7, GoesOn DEF Good, Saving
  <1> QED BY <1>5, <1>6, <1>7 DEF Good

-----------------------------------------------------------------------------
(* Calls that begin *)

\* The call that begins has read the row as it is, and clears nothing.
CallBegins(a) ==
  /\ calls[a].op = "none" /\ ~ Busy(Clearing)
  /\ calls'[a].op \notin Clearing
  /\ calls'[a].op # "none" => calls'[a].row = row
  /\ calls'[a].op = "sync" => row.session
  /\ \A b \in Admins : b # a => calls'[b] = calls[b]

LEMMA BegunCall ==
  ASSUME Typing, Kept, NEW a \in Admins, UNCHANGED row, CallBegins(a)
  PROVE  UserIsOfPhone' /\ ReadsAreCurrent' /\ ClearingIsAlone' /\ ~ Busy(Clearing)'
  <1>1. ~ Busy(Clearing)'
    BY DEF Busy, CallBegins
  <1>2. UserIsOfPhone'
    BY DEF Kept, UserIsOfPhone, UserOf
  <1>3. ReadsAreCurrent'
    <2> SUFFICES ASSUME NEW b \in Admins, calls'[b].op # "none"
                 PROVE  /\ calls'[b].row.phone = row.phone /\ calls'[b].row.user = UserOf(calls'[b].row)
                        /\ calls'[b].row.session => row.session
                        /\ calls'[b].op = "sync" => calls'[b].row.session
      BY DEF ReadsAreCurrent, UserOf
    <2>1. CASE b = a
      BY <2>1 DEF CallBegins, Kept, UserIsOfPhone
    <2>2. CASE b # a
      BY <2>2 DEF CallBegins, Kept, ReadsAreCurrent
    <2> QED BY <2>1, <2>2
  <1>4. ClearingIsAlone'
    BY <1>1 DEF ClearingIsAlone, Busy
  <1> QED BY <1>1, <1>2, <1>3, <1>4

LEMMA BeginVerifyHolds ==
  ASSUME LoginInv, ~ torn', NEW a \in Admins, BeginVerify(a)
  PROVE  Good'
  <1>1. ~ torn /\ ~ Busy(Clearing)
    BY DEF BeginVerify, Tear
  <1>2. Typing /\ Good /\ Kept
    BY <1>1, GoodOfInv DEF Good, BeginVerify
  <1>3. /\ clients \in Seq(Client) /\ Len(clients) \in Nat /\ store.client \in 1 .. Len(clients)
        /\ calls \in [Admins -> Call]
    BY <1>2 DEF Typing, BeginVerify
  <1>4. /\ UNCHANGED <<row, file, signed>> /\ clients' = Cleaned /\ store' = StoreCleaned
        /\ calls[a] = NoCall /\ calls[a].op = "none" /\ calls[a].client = 0
        /\ calls' = [calls EXCEPT ![a] = IF store.old THEN NoCall
                                         ELSE [op |-> "verify", client |-> store.client, row |-> row]]
    BY DEF BeginVerify, NoCall
  <1>5. /\ CallBegins(a)
        /\ IF store.old THEN calls' = calls
           ELSE calls'[a].op = "verify" /\ calls'[a].client = store.client
    BY <1>1, <1>3, <1>4 DEF CallBegins, NoCall, Clearing
  <1>6. /\ ClientsStay
        /\ \A c \in 1 .. Len(clients) :
             clients'[c].open <=> clients[c].open /\ ~ (store.old /\ c = store.client)
        /\ store'.client = IF store.old THEN 0 ELSE store.client
    BY <1>2, <1>4, CleanedClients DEF ClientsStay
  <1>7. NobodyLeaks'
    <2> SUFFICES ASSUME NEW c \in 1 .. Len(clients), clients'[c].open
                 PROVE  store'.client = c \/ \E b \in Admins : calls'[b].client = c
      BY <1>2, <1>4, CleanedClients DEF NobodyLeaks
    <2>1. store.client = c \/ \E b \in Admins : calls[b].client = c /\ b # a
      BY <1>2, <1>3, <1>4, <1>6 DEF Good, NobodyLeaks
    <2> QED BY <1>5, <1>6, <2>1 DEF CallBegins
  <1>8. StoreIsVerified'
    <2> SUFFICES ASSUME NEW b \in Admins, calls'[b].op \in {"verify", "save", "finally"}
                 PROVE  \/ store'.client = calls'[b].client
                        \/ store'.client = 0 /\ ~ clients'[calls'[b].client].open
      BY DEF StoreIsVerified
    <2>1. CASE b = a
      BY <1>4, <1>5, <1>6, <2>1
    <2>2. CASE b # a
      <3>1. calls'[b] = calls[b] /\ calls[b].client \in 1 .. Len(clients)
        BY <1>2, <1>5, <2>2, AccountRead DEF CallBegins, Connected, Signing
      <3> QED BY <1>2, <1>3, <1>6, <3>1 DEF Good, StoreIsVerified
    <2> QED BY <2>1, <2>2
  <1>9. Kept'
    <2>1. Held' \subseteq Held
      <3> SUFFICES ASSUME NEW c \in 1 .. Len(clients),
                          c = store'.client \/ \E b \in Admins : calls'[b].client = c
                   PROVE  c = store.client \/ \E b \in Admins : calls[b].client = c
        BY <1>6 DEF Held, ClientsStay
      <3> QED BY <1>5, <1>6 DEF CallBegins
    <2>2. OnTheFile'
      BY <1>2, <1>4, <1>6, <2>1 DEF Kept, OnTheFile, ClientsStay, Held
    <2>3. SignedIsSaved'
      BY <1>2, <1>4, <1>5 DEF Kept, SignedIsSaved, Busy, Saving, CallBegins
    <2>4. SessionHasFile'
      BY <1>1, <1>2, <1>4 DEF Kept, SessionHasFile
    <2> QED BY <1>2, <1>4, <1>5, <2>2, <2>3, <2>4, BegunCall DEF Kept
  <1> QED BY <1>7, <1>8, <1>9 DEF Good

\* A client is opened: nobody holds one on an older file.
LEMMA OpensKept ==
  ASSUME Typing, Kept, NEW a \in Admins, UNCHANGED row, CallBegins(a),
         file' = FileAfter, signed' = SignedAfter,
         Len(clients') = Len(clients) + 1,
         \A c \in 1 .. Len(clients) :
           clients'[c].file = clients[c].file /\ clients'[c].phone = clients[c].phone,
         clients'[Len(clients) + 1].file = FileAfter, clients'[Len(clients) + 1].phone = row.phone,
         store'.client \in {0, store.client},
         calls'[a].client \in {0, Len(clients) + 1}
  PROVE  Kept'
  <1>0. Len(clients) \in Nat /\ Len(signed) \in Nat /\ store.client \in 0 .. Len(clients)
    BY DEF Typing
  <1>1. OnTheFile'
    <2> SUFFICES ASSUME NEW c \in 1 .. Len(clients) + 1,
                        c = store'.client \/ \E b \in Admins : calls'[b].client = c
                 PROVE  clients'[c].file = file' /\ clients'[c].phone = row.phone
      BY DEF OnTheFile, Held
    <2>1. CASE c = Len(clients) + 1
      BY <2>1
    <2>2. CASE c \in 1 .. Len(clients)
      <3>1. c \in Held
        BY <1>0, <2>2 DEF Held, CallBegins
      <3>2. clients[c].file = file /\ clients[c].phone = row.phone
        BY <3>1 DEF Kept, OnTheFile
      <3>3. clients[c].file \in 1 .. Len(signed)
        BY <2>2 DEF Typing
      <3> QED BY <1>0, <2>2, <3>2, <3>3, OpenedFile
    <2> QED BY <1>0, <2>1, <2>2
  <1>2. SignedIsSaved'
    <2>1. CASE file = 0
      BY <2>1, OpenedFile DEF SignedIsSaved
    <2>2. CASE file # 0
      <3>1. file' = file /\ signed' = signed
        BY <2>2, OpenedFile
      <3>2. Busy(Saving) => Busy(Saving)'
        BY DEF Busy, CallBegins, Saving
      <3> QED BY <3>1, <3>2 DEF Kept, SignedIsSaved
    <2> QED BY <2>1, <2>2
  <1>3. SessionHasFile'
    BY OpenedFile DEF SessionHasFile
  <1> QED BY <1>1, <1>2, <1>3, BegunCall DEF Kept

\* Whoever opens a client keeps it, or has closed it again.
LEMMA OpensGood ==
  ASSUME Typing, Good, row.there, NEW a \in Admins, UNCHANGED row, CallBegins(a),
         calls[a].client = 0,
         file' = FileAfter, signed' = SignedAfter,
         NEW cs \in Seq(Client), NEW x \in Client, clients' = Append(cs, x), Len(cs) = Len(clients),
         NEW gone \in BOOLEAN,
         \A c \in 1 .. Len(clients) :
           /\ cs[c].file = clients[c].file /\ cs[c].phone = clients[c].phone
           /\ cs[c].open <=> clients[c].open /\ ~ (gone /\ c = store.client),
         x.file = FileAfter, x.phone = row.phone,
         store'.client = IF gone THEN 0 ELSE store.client,
         \/ calls'[a].op = "none" /\ calls'[a].client = 0 /\ ~ x.open
         \/ calls'[a].client = Len(clients) + 1 /\ calls'[a].op \in {"request", "sync", "cli", "cli save"}
  PROVE  Good'
  <1>0. /\ clients \in Seq(Client) /\ Len(clients) \in Nat /\ store.client \in 0 .. Len(clients)
        /\ DOMAIN clients = 1 .. Len(clients)
        /\ \A c \in 1 .. Len(clients) + 1 : c # Len(clients) + 1 => c \in 1 .. Len(clients)
    BY ClientNumbers DEF Typing
  <1>1. /\ Len(clients') = Len(clients) + 1 /\ clients' \in Seq(Client)
        /\ \A c \in 1 .. Len(clients) : clients'[c] = cs[c]
        /\ clients'[Len(clients) + 1] = x
        /\ DOMAIN clients' = 1 .. Len(clients) + 1
    <2>1. /\ Append(cs, x) \in Seq(Client) /\ Len(Append(cs, x)) = Len(cs) + 1
          /\ \A i \in 1 .. Len(cs) : Append(cs, x)[i] = cs[i]
          /\ Append(cs, x)[Len(cs) + 1] = x
      BY AppendedClient
    <2> QED BY <2>1, ClientNumbers
  <1>2. NobodyLeaks'
    <2> SUFFICES ASSUME NEW c \in 1 .. Len(clients) + 1, clients'[c].open
                 PROVE  store'.client = c \/ \E b \in Admins : calls'[b].client = c
      BY <1>1 DEF NobodyLeaks
    <2>1. CASE c = Len(clients) + 1
      BY <1>1, <2>1
    <2>2. CASE c \in 1 .. Len(clients)
      <3>1. store.client = c \/ \E b \in Admins : b # a /\ calls[b].client = c
        <4>1. c # 0 /\ c \in DOMAIN clients
          BY <1>0, <2>2, ClientNumbers
        <4>2. clients'[c] = cs[c]
          BY <1>1, <2>2
        <4>3. clients[c].open /\ ~ (gone /\ c = store.client)
          BY <2>2, <4>2
        <4> QED BY <4>1, <4>3 DEF Good, NobodyLeaks
      <3> QED BY <1>1, <2>2, <3>1 DEF CallBegins
    <2> QED BY <1>0, <2>1, <2>2
  <1>3. StoreIsVerified'
    <2> SUFFICES ASSUME NEW b \in Admins, calls'[b].op \in {"verify", "save", "finally"}
                 PROVE  \/ store'.client = calls'[b].client
                        \/ store'.client = 0 /\ ~ clients'[calls'[b].client].open
      BY DEF StoreIsVerified
    <2>1. b # a /\ calls'[b] = calls[b] /\ calls[b].client \in 1 .. Len(clients)
      BY AccountRead DEF CallBegins, Connected, Signing
    <2>2. clients'[calls[b].client] = cs[calls[b].client]
      BY <1>1, <2>1
    <2>3. clients'[calls[b].client].open <=>
            clients[calls[b].client].open /\ ~ (gone /\ calls[b].client = store.client)
      BY <2>1, <2>2
    <2>4. \/ store.client = calls[b].client
          \/ store.client = 0 /\ ~ clients[calls[b].client].open
      BY <2>1 DEF Good, StoreIsVerified
    <2> QED BY <2>1, <2>3, <2>4
  <1>4. Kept'
    <2>1. /\ \A c \in 1 .. Len(clients) :
               clients'[c].file = clients[c].file /\ clients'[c].phone = clients[c].phone
          /\ clients'[Len(clients) + 1].file = FileAfter /\ clients'[Len(clients) + 1].phone = row.phone
          /\ store'.client \in {0, store.client} /\ calls'[a].client \in {0, Len(clients) + 1}
      BY <1>1
    <2> QED BY <1>1, <2>1, OpensKept DEF Good
  <1> QED BY <1>2, <1>3, <1>4 DEF Good

LEMMA BeginRequestHolds ==
  ASSUME LoginInv, ~ torn', NEW a \in Admins, BeginRequest(a)
  PROVE  Good'
  <1>1. ~ torn /\ ~ Busy(Clearing) /\ row.there
    BY DEF BeginRequest, Tear
  <1>2. Typing /\ Good
    BY <1>1, GoodOfInv
  <1>3. /\ UNCHANGED row /\ file' = FileAfter /\ signed' = SignedAfter /\ store' = StoreCleaned
        /\ calls[a].op = "none" /\ calls[a].client = 0 /\ calls \in [Admins -> Call] /\ calls[a] = NoCall
    BY <1>2 DEF BeginRequest, NoCall, Typing
  <1> DEFINE ok == SignedAfter[FileAfter] = 0
             x == IF ok THEN Opened ELSE [Opened EXCEPT !.open = FALSE]
  <1>4. clients' = Append(Cleaned, x)
    BY DEF BeginRequest
  <1>5. x \in Client /\ x.file = FileAfter /\ x.phone = row.phone /\ (x.open => ok)
    BY <1>2, OpenedFile DEF Opened
  <1>6. /\ ok => calls' = [calls EXCEPT ![a] = [op |-> "request", client |-> Len(clients) + 1, row |-> row]]
        /\ ~ ok => calls' = calls
    BY DEF BeginRequest
  <1> HIDE DEF x, ok
  <1>7. /\ CallBegins(a)
        /\ \/ calls'[a].op = "none" /\ calls'[a].client = 0 /\ ~ x.open
           \/ calls'[a].client = Len(clients) + 1 /\ calls'[a].op \in {"request", "sync", "cli", "cli save"}
    <2>1. CASE ok
      <3>1. /\ calls'[a] = [op |-> "request", client |-> Len(clients) + 1, row |-> row]
            /\ \A b \in Admins : b # a => calls'[b] = calls[b]
        BY <1>3, <1>6, <2>1
      <3> QED BY <1>1, <1>3, <3>1 DEF CallBegins, Clearing
    <2>2. CASE ~ ok
      BY <1>1, <1>3, <1>5, <1>6, <2>2 DEF CallBegins, Clearing
    <2> QED BY <2>1, <2>2
  <1>8. store'.client = (IF store.old THEN 0 ELSE store.client) /\ store.old \in BOOLEAN
    BY <1>2, <1>3, CleanedClients DEF Typing
  <1>9. /\ Cleaned \in Seq(Client) /\ Len(Cleaned) = Len(clients)
        /\ \A c \in 1 .. Len(clients) :
             /\ Cleaned[c].file = clients[c].file /\ Cleaned[c].phone = clients[c].phone
             /\ Cleaned[c].open <=> clients[c].open /\ ~ (store.old /\ c = store.client)
    BY <1>2, CleanedClients
  <1> QED BY <1>1, <1>2, <1>3, <1>4, <1>5, <1>7, <1>8, <1>9, OpensGood

LEMMA BeginSyncHolds ==
  ASSUME LoginInv, ~ torn', NEW a \in Admins, BeginSync(a) \/ BeginCli(a)
  PROVE  Good'
  <1>1. ~ torn /\ ~ Busy(Clearing) /\ row.there
    BY DEF BeginSync, BeginCli, Tear
  <1>2. Typing /\ Good
    BY <1>1, GoodOfInv
  <1>3. /\ UNCHANGED row /\ file' = FileAfter /\ signed' = SignedAfter /\ store' = store
        /\ calls[a].op = "none" /\ calls[a].client = 0 /\ calls \in [Admins -> Call] /\ calls[a] = NoCall
    <2>1. UNCHANGED row /\ file' = FileAfter /\ signed' = SignedAfter /\ store' = store /\ calls[a] = NoCall
      BY DEF BeginSync, BeginCli
    <2> QED BY <1>2, <2>1 DEF NoCall, Typing
  <1>4. PICK x \in Client :
          /\ clients' = Append(clients, x) /\ x.file = FileAfter /\ x.phone = row.phone
          /\ BeginSync(a) /\ x.open => SignedAfter[FileAfter] # 0
    <2>1. CASE BeginSync(a)
      <3> DEFINE x == [Opened EXCEPT !.open = (SignedAfter[FileAfter] # 0)]
      <3>1. /\ x \in Client /\ x.file = FileAfter /\ x.phone = row.phone
            /\ x.open => SignedAfter[FileAfter] # 0
        <4>1. Opened \in Client /\ Opened.file = FileAfter /\ Opened.phone = row.phone
          BY <1>2, OpenedFile
        <4> QED BY <4>1 DEF Client
      <3>2. clients' = Append(clients, x)
        BY <2>1 DEF BeginSync
      <3> QED BY <3>1, <3>2
    <2>2. CASE BeginCli(a) /\ ~ BeginSync(a)
      BY <1>2, <2>2, OpenedFile DEF BeginCli
    <2> QED BY <2>1, <2>2
  <1>5. \/ calls' = calls /\ BeginSync(a) /\ SignedAfter[FileAfter] = 0
        \/ \E op \in {"sync", "cli", "cli save"} :
             /\ calls' = [calls EXCEPT ![a] = [op |-> op, client |-> Len(clients) + 1, row |-> row]]
             /\ op = "sync" => row.session
    BY DEF BeginSync, BeginCli
  <1>6. /\ CallBegins(a)
        /\ \/ calls'[a].op = "none" /\ calls'[a].client = 0 /\ ~ x.open
           \/ calls'[a].client = Len(clients) + 1 /\ calls'[a].op \in {"request", "sync", "cli", "cli save"}
    <2>1. CASE calls' = calls
      <3>1. ~ x.open
        <4>1. SignedAfter[FileAfter] = 0 \/ \E op \in {"sync", "cli", "cli save"} :
                calls' = [calls EXCEPT ![a] = [op |-> op, client |-> Len(clients) + 1, row |-> row]]
          BY <1>5
        <4>2. calls'[a].op = "none"
          BY <1>3, <2>1
        <4>3. \A op \in {"sync", "cli", "cli save"} :
                calls' # [calls EXCEPT ![a] = [op |-> op, client |-> Len(clients) + 1, row |-> row]]
          <5>1. \A op : [calls EXCEPT ![a] = [op |-> op, client |-> Len(clients) + 1, row |-> row]][a].op = op
            BY <1>3
          <5> QED BY <4>2, <5>1
        <4> QED BY <1>4, <1>5, <4>3
      <3> QED BY <1>1, <1>3, <2>1, <3>1 DEF CallBegins, Clearing
    <2>2. CASE calls' # calls
      <3>1. PICK op \in {"sync", "cli", "cli save"} :
              /\ calls' = [calls EXCEPT ![a] = [op |-> op, client |-> Len(clients) + 1, row |-> row]]
              /\ op = "sync" => row.session
        BY <1>5, <2>2
      <3>2. /\ calls'[a] = [op |-> op, client |-> Len(clients) + 1, row |-> row]
            /\ \A b \in Admins : b # a => calls'[b] = calls[b]
        BY <1>3, <3>1
      <3> QED BY <1>1, <1>3, <3>1, <3>2 DEF CallBegins, Clearing
    <2> QED BY <2>1, <2>2
  <1>7. clients \in Seq(Client) /\ store'.client = (IF FALSE THEN 0 ELSE store.client)
    BY <1>2, <1>3 DEF Typing
  <1> QED BY <1>1, <1>2, <1>3, <1>4, <1>6, <1>7, OpensGood

-----------------------------------------------------------------------------
(* Signing in and saving who it is *)

\* Nobody lets a client go, or opens one.
LEMMA NobodyLetsGo ==
  ASSUME Good, UNCHANGED clients, store'.client = store.client,
         \A b \in Admins : calls'[b].client = calls[b].client,
         \A b \in Admins : calls'[b].op \in {"verify", "save", "finally"} =>
           calls[b].op \in {"verify", "save", "finally"}
  PROVE  NobodyLeaks' /\ StoreIsVerified'
  BY DEF Good, NobodyLeaks, StoreIsVerified

LEMMA SignInHolds ==
  ASSUME LoginInv, ~ torn', NEW a \in Admins, SignIn(a)
  PROVE  Good'
  <1>1. ~ torn /\ Typing /\ Good
    BY GoodOfInv DEF SignIn
  <1> DEFINE c == calls[a].client
  <1>2. /\ calls[a].op \in {"verify", "cli"} /\ calls[a].op \in Signing /\ calls[a].op \in Connected
        /\ UNCHANGED <<row, file, clients, store>>
        /\ signed' = [signed EXCEPT ![clients[c].file] = clients[c].phone]
    BY DEF SignIn, Signing, Connected
  <1>3. CallMoves(a) /\ calls'[a].op \in Saving /\ calls'[a].client = c
        /\ (calls'[a].op = "save" => calls[a].op = "verify")
    <2>1. CASE calls[a].op = "cli"
      <3>1. To(a, "cli save")
        BY <2>1 DEF SignIn
      <3> QED BY <1>1, <1>2, <2>1, <3>1, MovedCall DEF Saving, Signing
    <2>2. CASE calls[a].op = "verify"
      <3>1. To(a, "save")
        BY <2>2 DEF SignIn
      <3> QED BY <1>1, <1>2, <2>2, <3>1, MovedCall DEF Saving, Signing
    <2> QED BY <1>2, <2>1, <2>2
  <1>4. c \in 1 .. Len(clients) /\ clients[c].file \in 1 .. Len(signed)
    BY <1>1, <1>2, AccountRead
  <1>5. NobodyLeaks' /\ StoreIsVerified'
    BY <1>1, <1>2, <1>3, NobodyLetsGo DEF CallMoves, Saving
  <1>6. ASSUME row'.there PROVE Kept'
    <2>1. Kept /\ c \in Held
      BY <1>1, <1>2, <1>4, <1>6 DEF Good, Held
    <2>2. clients[c].file = file /\ clients[c].phone = row.phone
      BY <2>1 DEF Kept, OnTheFile
    <2>3. file \in 1 .. Len(signed) /\ signed'[file] = row.phone
      BY <1>1, <1>2, <1>4, <2>2 DEF Typing
    <2>4. ~ Busy(Clearing) /\ ~ Busy(Clearing)'
      BY <1>2, <1>3, <2>1, NobodyClears DEF Kept, Busy, CallMoves
    <2>5. OnTheFile'
      BY <1>2, <1>3, <2>1 DEF Kept, OnTheFile, Held, CallMoves
    <2>6. UserIsOfPhone' /\ ReadsAreCurrent'
      <3>1. \A b \in Admins : calls'[b].op # "none" =>
              /\ calls[b].op # "none" /\ calls'[b].row = calls[b].row
              /\ calls'[b].op = "sync" => calls[b].op = "sync"
        BY <1>2, <1>3 DEF CallMoves, Saving
      <3> QED BY <1>2, <2>1, <3>1 DEF Kept, UserIsOfPhone, ReadsAreCurrent, UserOf
    <2>7. SignedIsSaved'
      BY <1>2, <1>3, <2>3 DEF SignedIsSaved, Busy
    <2>8. ClearingIsAlone' /\ SessionHasFile'
      BY <1>2, <2>1, <2>4 DEF Kept, ClearingIsAlone, SessionHasFile, Busy
    <2> QED BY <2>5, <2>6, <2>7, <2>8 DEF Kept
  <1> QED BY <1>5, <1>6 DEF Good

\* Whatever the call has read, the account and the session are in the row.
LEMMA SavedRow ==
  ASSUME Typing, Kept, NEW a \in Admins, calls[a].op \in {"save", "cli save", "sync"},
         Account(a) # 0, row.there, row' = AccountWritten(calls[a].row, TRUE, Account(a))
  PROVE  row'.there /\ row'.session /\ row'.phone = row.phone /\ row'.user = row.phone /\ file # 0
  <1>1. calls[a].op \in Connected /\ calls[a].op # "none"
    BY DEF Connected, Signing
  <1>2. /\ calls[a].client \in Held /\ calls[a].row \in Row /\ Account(a) \in Nat
        /\ clients[calls[a].client].file \in 1 .. Len(signed)
        /\ Account(a) = signed[clients[calls[a].client].file]
    BY <1>1, AccountRead DEF Held
  <1>3. clients[calls[a].client].file = file /\ file # 0
    <2>1. \A f \in 1 .. Len(signed) : f # 0
      BY FileNumbers
    <2> QED BY <1>2, <2>1 DEF Kept, OnTheFile
  <1>4. Account(a) = row.phone
    BY <1>2, <1>3 DEF Kept, SignedIsSaved
  <1>5. /\ row'.there = row.there /\ row'.phone = row.phone
        /\ row'.session = IF TRUE = calls[a].row.session THEN row.session ELSE TRUE
        /\ row'.user = IF Account(a) = calls[a].row.user THEN row.user ELSE Account(a)
    BY <1>2, WrittenRow
  <1>6. /\ calls[a].row.session => row.session
        /\ calls[a].row.user = UserOf(calls[a].row) /\ row.user = UserOf(row)
    BY <1>1 DEF Kept, ReadsAreCurrent, UserIsOfPhone
  <1>7. calls[a].row.session \in BOOLEAN /\ row.session \in BOOLEAN
    BY <1>2 DEF Typing, Row
  <1>8. row'.session
    BY <1>5, <1>6, <1>7
  <1>9. row'.user = row.phone
    BY <1>4, <1>5, <1>6 DEF UserOf
  <1> QED BY <1>3, <1>5, <1>8, <1>9

LEMMA SavedKept ==
  ASSUME Typing, Kept, NEW a \in Admins, calls[a].op \in {"save", "cli save", "sync"},
         Account(a) # 0, row.there, row' = AccountWritten(calls[a].row, TRUE, Account(a)),
         UNCHANGED <<file, signed, store>>, ClientsStay, CallMoves(a)
  PROVE  Kept'
  <1>1. row'.session /\ row'.phone = row.phone /\ row'.user = row.phone /\ file # 0
    BY SavedRow
  <1>2. calls[a].op \in Connected
    BY DEF Connected, Signing
  <1>3. ~ Busy(Clearing) /\ ~ Busy(Clearing)'
    BY <1>2, NobodyClears DEF Kept, Busy, CallMoves
  <1>4. OnTheFile'
    <2> SUFFICES ASSUME NEW c \in 1 .. Len(clients),
                        c = store.client \/ \E b \in Admins : calls'[b].client = c
                 PROVE  clients[c].file = file /\ clients[c].phone = row.phone
      BY <1>1 DEF OnTheFile, Held, ClientsStay
    <2>1. c # 0
      BY ClientNumbers DEF Typing
    <2>2. c \in Held
      BY <2>1 DEF CallMoves, Held
    <2> QED BY <2>2 DEF Kept, OnTheFile
  <1>5. UserIsOfPhone'
    BY <1>1 DEF UserIsOfPhone, UserOf
  <1>6. ReadsAreCurrent'
    <2>1. \A b \in Admins : calls'[b].op # "none" =>
            /\ calls[b].op # "none" /\ calls'[b].row = calls[b].row
            /\ calls'[b].op = "sync" => calls[b].op = "sync"
      BY DEF CallMoves
    <2> QED BY <1>1, <2>1 DEF Kept, ReadsAreCurrent, UserOf
  <1>7. SignedIsSaved'
    BY <1>1 DEF Kept, SignedIsSaved
  <1>8. ClearingIsAlone' /\ SessionHasFile'
    BY <1>1, <1>3 DEF ClearingIsAlone, SessionHasFile, Busy
  <1> QED BY <1>4, <1>5, <1>6, <1>7, <1>8 DEF Kept

LEMMA SaveHolds ==
  ASSUME LoginInv, ~ torn', NEW a \in Admins, Save(a)
  PROVE  Good'
  <1>1. ~ torn /\ Typing /\ Good
    BY GoodOfInv DEF Save
  <1>2. /\ calls[a].op = "save" /\ calls[a].op \in Signing /\ Account(a) # 0
        /\ UNCHANGED <<file, signed, clients, store>> /\ To(a, "finally")
        /\ row' = IF row.there THEN AccountWritten(calls[a].row, TRUE, Account(a)) ELSE row
    BY DEF Save, Signing
  <1>3. CallMoves(a) /\ calls'[a].client = calls[a].client /\ ClientsStay
    BY <1>1, <1>2, MovedCall DEF Signing, ClientsStay
  <1>4. NobodyLeaks' /\ StoreIsVerified'
    BY <1>1, <1>2, <1>3, NobodyLetsGo DEF CallMoves
  <1>5. ASSUME row'.there PROVE Kept'
    BY <1>1, <1>2, <1>3, <1>5, SavedKept DEF Good
  <1> QED BY <1>4, <1>5 DEF Good

LEMMA EndSaveHolds ==
  ASSUME LoginInv, ~ torn', NEW a \in Admins, EndSync(a) \/ CliSave(a)
  PROVE  Good'
  <1>1. ~ torn /\ Typing /\ Good
    <2>1. ~ torn
      BY DEF EndSync, CliSave
    <2> QED BY <2>1, GoodOfInv
  <1>2. /\ calls[a].op \in {"cli save", "sync"} /\ calls[a].op \in Connected /\ Account(a) # 0
        /\ UNCHANGED <<file, signed, store>> /\ End(a)
        /\ clients' = Closed(clients, calls[a].client)
    BY DEF EndSync, CliSave, Connected, Signing
  <1>3. /\ calls[a].client \in 1 .. Len(clients) /\ clients \in Seq(Client) /\ Len(clients) \in Nat
        /\ calls[a].client \in 0 .. Len(clients)
    <2>1. clients \in Seq(Client)
      BY <1>1 DEF Typing
    <2> QED BY <1>1, <1>2, <2>1, AccountRead, ClientNumbers
  <1>4. CallMoves(a) /\ calls'[a].op = "none"
    BY <1>1, <1>2, EndedCall
  <1>5. /\ ClientsStay /\ clients' \in Seq(Client)
        /\ \A c \in 1 .. Len(clients) : clients'[c].open <=> clients[c].open /\ c # calls[a].client
    <2>1. clients' = Closed(clients, calls[a].client)
      BY <1>2
    <2>2. /\ Closed(clients, calls[a].client) \in Seq(Client)
          /\ Len(Closed(clients, calls[a].client)) = Len(clients)
          /\ \A c \in 1 .. Len(clients) :
               /\ Closed(clients, calls[a].client)[c].file = clients[c].file
               /\ Closed(clients, calls[a].client)[c].phone = clients[c].phone
               /\ Closed(clients, calls[a].client)[c].open <=> clients[c].open /\ c # calls[a].client
      BY <1>3, ClosedClients
    <2> QED BY <2>1, <2>2 DEF ClientsStay
  <1>6. NobodyLeaks'
    <2>1. DOMAIN clients' = 1 .. Len(clients) /\ DOMAIN clients = 1 .. Len(clients)
      BY <1>3, <1>5, ClientNumbers DEF ClientsStay
    <2> SUFFICES ASSUME NEW c \in 1 .. Len(clients), clients'[c].open
                 PROVE  store.client = c \/ \E b \in Admins : calls'[b].client = c
      BY <1>2, <2>1 DEF NobodyLeaks
    <2>2. store.client = c \/ \E b \in Admins : b # a /\ calls[b].client = c
      BY <1>1, <1>5, <2>1 DEF Good, NobodyLeaks
    <2> QED BY <1>4, <2>2 DEF CallMoves
  <1>7. StoreIsVerified'
    <2> SUFFICES ASSUME NEW b \in Admins, calls'[b].op \in {"verify", "save", "finally"}
                 PROVE  \/ store.client = calls'[b].client
                        \/ store.client = 0 /\ ~ clients'[calls'[b].client].open
      BY <1>2 DEF StoreIsVerified
    <2>1. calls'[b] = calls[b]
      BY <1>4 DEF CallMoves
    <2>2. calls[b].client \in 1 .. Len(clients)
      BY <1>1, <2>1, AccountRead DEF Connected, Signing
    <2> QED BY <1>1, <1>5, <2>1, <2>2 DEF Good, StoreIsVerified
  <1>8. ASSUME row'.there PROVE Kept'
    <2>1. row.there
      BY <1>8 DEF EndSync, CliSave
    <2>2. row' = AccountWritten(calls[a].row, TRUE, Account(a))
      <3>1. CASE CliSave(a)
        BY <2>1, <3>1 DEF CliSave
      <3>2. CASE EndSync(a)
        <4>1. calls[a].row.session = TRUE
          <5>1. calls[a].row.session \in BOOLEAN
            BY <1>1, <1>2, AccountRead DEF Row
          <5>2. calls[a].row.session
            BY <1>1, <2>1, <3>2 DEF EndSync, Good, Kept, ReadsAreCurrent
          <5> QED BY <5>1, <5>2
        <4> QED BY <2>1, <3>2, <4>1 DEF EndSync
      <3> QED BY <3>1, <3>2
    <2> QED BY <1>1, <1>2, <1>4, <1>5, <2>1, <2>2, SavedKept DEF Good
  <1> QED BY <1>6, <1>7, <1>8 DEF Good

-----------------------------------------------------------------------------
(* Logging out, changing the credentials, deleting, and what happens meanwhile *)

\* No call and no stored client: nobody holds a client.
LEMMA NobodyHolds ==
  ASSUME Typing', store'.client = 0, \A b \in Admins : calls'[b].client = 0
  PROVE  OnTheFile'
  <1>1. clients' \in Seq(Client)
    BY DEF Typing
  <1>2. \A c \in 1 .. Len(clients') : c # 0
    BY <1>1, ClientNumbers
  <1> QED BY <1>2 DEF OnTheFile, Held

LEMMA BeginClearHolds ==
  ASSUME LoginInv, ~ torn', NEW a \in Admins, NEW op \in Clearing, BeginClear(a, op)
  PROVE  Good'
  <1>1. /\ ~ torn /\ store.client = 0
        /\ ~ Busy(Signing \cup {"request", "sync", "logout", "credentials"})
    BY DEF BeginClear, Tear
  <1>2. Typing /\ Good /\ Kept
    BY <1>1, GoodOfInv DEF Good, BeginClear
  <1>3. \A b \in Admins : calls[b].op = "none" /\ calls[b].client = 0
    <2>1. \A b \in Admins : calls[b].op = "none"
      BY <1>1, <1>2 DEF Busy, Typing, Call, Connected, Clearing
    <2> QED BY <1>2, <2>1 DEF Typing, CallOK, NoCall
  <1>4. /\ UNCHANGED <<row, signed, clients, store>>
        /\ file' = IF row.session THEN 0 ELSE file
        /\ calls'[a] = [op |-> op, client |-> 0, row |-> row]
        /\ \A b \in Admins : b # a => calls'[b] = calls[b]
    BY <1>2 DEF BeginClear, Typing
  <1>5. /\ calls'[a].op = op /\ op # "none" /\ op # "sync" /\ op \notin Signing /\ calls'[a].client = 0
        /\ calls'[a].row = row
    <2>1. op # "none" /\ op # "sync" /\ op \notin Signing
      BY DEF Clearing, Signing
    <2> QED BY <1>4, <2>1
  <1>6. NobodyLeaks' /\ StoreIsVerified'
    <2>1. \A b \in Admins : calls'[b].client = calls[b].client /\ calls'[b].op \notin {"verify", "save", "finally"}
      BY <1>3, <1>4, <1>5 DEF Signing
    <2> QED BY <1>2, <1>4, <2>1, NobodyLetsGo
  <1>7. Typing'
    BY <1>2, TypingHolds DEF LoginNext, Clearing
  <1>8. OnTheFile'
    BY <1>1, <1>3, <1>4, <1>5, <1>7, NobodyHolds
  <1>9. UserIsOfPhone' /\ ReadsAreCurrent'
    <2>1. \A b \in Admins : calls'[b].op # "none" => b = a
      BY <1>3, <1>4
    <2> QED BY <1>2, <1>4, <1>5, <2>1 DEF Kept, UserIsOfPhone, ReadsAreCurrent, UserOf
  <1>10. file' # 0 => file # 0 /\ ~ row.session /\ signed[file] = 0
    BY <1>2, <1>3, <1>4 DEF Kept, SignedIsSaved, Busy, Saving
  <1>11. SignedIsSaved'
    BY <1>4, <1>10 DEF SignedIsSaved
  <1>12. ClearingIsAlone'
    BY <1>1, <1>3, <1>4, <1>5, <1>10 DEF ClearingIsAlone, Clearing
  <1>13. SessionHasFile'
    BY <1>5 DEF SessionHasFile, Busy
  <1> QED BY <1>6, <1>8, <1>9, <1>11, <1>12, <1>13 DEF Good, Kept

LEMMA ClearedHolds ==
  ASSUME LoginInv, ~ torn', NEW a \in Admins, Logout(a) \/ UpdateCredentials(a)
  PROVE  Good'
  <1>1. ~ torn /\ Typing /\ Good
    <2>1. ~ torn
      BY DEF Logout, UpdateCredentials
    <2> QED BY <2>1, GoodOfInv
  <1>2. /\ calls[a].op \in Clearing /\ UNCHANGED <<file, signed, clients, store>> /\ End(a)
        /\ row' = IF row.there
                  THEN IF Logout(a) THEN AccountWritten(calls[a].row, FALSE, 0) ELSE Cleared(calls[a].row)
                  ELSE row
    BY DEF Logout, UpdateCredentials, Clearing
  <1>3. CallMoves(a) /\ calls'[a].op = "none" /\ calls'[a].client = 0 /\ calls[a].client = 0
    <2>1. calls[a].op \notin Connected
      BY <1>2 DEF Clearing, Connected, Signing
    <2> QED BY <1>1, <1>2, <2>1, EndedCall DEF Typing, CallOK
  <1>4. NobodyLeaks' /\ StoreIsVerified'
    <2>1. \A b \in Admins : /\ calls'[b].client = calls[b].client
                            /\ calls'[b].op = "none" \/ calls'[b].op = calls[b].op
      BY <1>3 DEF CallMoves
    <2> QED BY <1>1, <1>2, <2>1, NobodyLetsGo
  <1>5. ASSUME row'.there PROVE Kept'
    <2>1. row.there /\ Kept
      <3>1. row.there
        BY <1>2, <1>5
      <3> QED BY <1>1, <3>1 DEF Good
    <2>2. /\ \A b \in Admins : b # a => calls[b].op = "none"
          /\ store.client = 0 /\ calls[a].row.session = row.session
          /\ file # 0 => signed[file] = 0
      BY <1>2, <2>1 DEF Kept, ClearingIsAlone
    <2>3. \A b \in Admins : calls'[b].op = "none"
      BY <1>3, <2>2 DEF CallMoves
    <2>4. ~ row'.session /\ row'.user = 0
      <3> DEFINE w == AccountWritten(calls[a].row, FALSE, 0)
      <3>1. calls[a].row \in Row /\ row \in Row
        BY <1>1 DEF Typing, Call
      <3>2. \A s \in BOOLEAN, u \in Nat :
              LET z == AccountWritten(calls[a].row, s, u)
              IN  /\ z \in Row
                  /\ z.session = IF s = calls[a].row.session THEN row.session ELSE s
                  /\ z.user = IF u = calls[a].row.user THEN row.user ELSE u
        BY <1>1, <3>1, WrittenRow
      <3>3. w \in Row /\ w.session = (IF FALSE = calls[a].row.session THEN row.session ELSE FALSE)
            /\ w.user = (IF 0 = calls[a].row.user THEN row.user ELSE 0)
        BY <3>2
      <3>4. calls[a].row.user = row.user
        BY <1>2, <2>1, <2>2 DEF Kept, ReadsAreCurrent, UserIsOfPhone, UserOf, Clearing
      <3>5. row.session \in BOOLEAN
        BY <3>1 DEF Row
      <3>6. ~ w.session /\ w.user = 0
        BY <2>2, <3>3, <3>4, <3>5
      <3>7. \A z \in Row : [z EXCEPT !.phone = @ + 1].session = z.session /\ [z EXCEPT !.phone = @ + 1].user = z.user
        BY DEF Row
      <3>8. Cleared(calls[a].row) = [w EXCEPT !.phone = @ + 1]
        BY DEF Cleared
      <3> HIDE DEF w
      <3>9. row' = w \/ row' = Cleared(calls[a].row)
        BY <1>2, <2>1 DEF w
      <3> QED BY <3>3, <3>6, <3>7, <3>8, <3>9
    <2>5. OnTheFile'
      <3>1. \A b \in Admins : calls'[b].client = 0
        <4>1. \A b \in Admins : b # a => calls[b].client = 0
          BY <1>1, <2>2 DEF Typing, CallOK, NoCall
        <4> QED BY <1>3, <4>1 DEF CallMoves
      <3>2. Typing'
        BY <1>1, TypingHolds DEF LoginNext
      <3> QED BY <1>2, <2>2, <3>1, <3>2, NobodyHolds
    <2>6. UserIsOfPhone' /\ ReadsAreCurrent' /\ ClearingIsAlone' /\ SessionHasFile'
      BY <2>3, <2>4 DEF UserIsOfPhone, ReadsAreCurrent, ClearingIsAlone, SessionHasFile, UserOf, Clearing
    <2>7. SignedIsSaved'
      BY <1>2, <2>2 DEF SignedIsSaved
    <2> QED BY <2>5, <2>6, <2>7 DEF Kept
  <1> QED BY <1>4, <1>5 DEF Good

LEMMA MeanwhileHolds ==
  ASSUME LoginInv, ~ torn', DeletePersona \/ TimePasses \/ Revoked \/ UNCHANGED loginVars
  PROVE  Good'
  <1>1. ~ torn /\ Typing /\ Good
    <2>1. ~ torn
      BY DEF DeletePersona, TimePasses, Revoked, loginVars
    <2> QED BY <2>1, GoodOfInv
  <1>2. UNCHANGED <<clients, calls>> /\ store'.client = store.client
    BY <1>1 DEF DeletePersona, TimePasses, Revoked, loginVars, Typing
  <1>3. NobodyLeaks' /\ StoreIsVerified'
    BY <1>1, <1>2, NobodyLetsGo
  <1>4. ASSUME row'.there PROVE Kept'
    <2>1. ~ DeletePersona
      BY <1>1, <1>4 DEF DeletePersona, Typing, Row
    <2>2. UNCHANGED <<row, file>> /\ (file # 0 => signed'[file] \in {0, signed[file]})
      BY <1>1, <2>1 DEF TimePasses, Revoked, loginVars, Typing
    <2>3. Kept
      BY <1>1, <1>4, <2>2 DEF Good
    <2>4. OnTheFile'
      BY <1>2, <2>2, <2>3 DEF Kept, OnTheFile, Held
    <2>5. SignedIsSaved' /\ ClearingIsAlone'
      BY <1>2, <2>2, <2>3 DEF Kept, SignedIsSaved, ClearingIsAlone, Busy
    <2>6. UserIsOfPhone' /\ ReadsAreCurrent' /\ SessionHasFile'
      BY <1>2, <2>2, <2>3 DEF Kept, UserIsOfPhone, ReadsAreCurrent, SessionHasFile, Busy, UserOf
    <2> QED BY <2>4, <2>5, <2>6 DEF Kept
  <1> QED BY <1>3, <1>4 DEF Good

LEMMA RestartHolds ==
  ASSUME LoginInv, ~ torn', Restart
  PROVE  Good'
  <1>1. ~ torn /\ ~ Busy(Saving) /\ ~ Busy(Clearing)
    BY DEF Restart, Tear, Busy, Saving, Clearing
  <1>2. Typing /\ Good
    BY <1>1, GoodOfInv
  <1>3. /\ store'.client = 0 /\ UNCHANGED <<row, file, signed>>
        /\ \A b \in Admins : calls'[b] = NoCall /\ calls'[b].op = "none" /\ calls'[b].client = 0
    BY DEF Restart, NoStore, NoCall
  <1>4. NobodyLeaks'
    <2>1. \A c \in DOMAIN clients' : clients'[c] = [clients[c] EXCEPT !.open = FALSE] /\ c \in DOMAIN clients
      BY DEF Restart
    <2>2. \A c \in DOMAIN clients : clients[c] \in Client
      BY <1>2, ClientNumbers DEF Typing
    <2>3. \A x \in Client : ~ [x EXCEPT !.open = FALSE].open
      BY DEF Client
    <2> QED BY <2>1, <2>2, <2>3 DEF NobodyLeaks
  <1>5. StoreIsVerified'
    BY <1>3 DEF StoreIsVerified
  <1>6. ASSUME row'.there PROVE Kept'
    <2>1. Kept
      BY <1>2, <1>3, <1>6 DEF Good
    <2>2. OnTheFile'
      <3>1. Typing'
        BY <1>2, TypingHolds DEF LoginNext
      <3> QED BY <1>3, <3>1, NobodyHolds
    <2>3. SignedIsSaved' /\ SessionHasFile'
      BY <1>1, <1>3, <2>1 DEF Kept, SignedIsSaved, SessionHasFile
    <2>4. UserIsOfPhone' /\ ReadsAreCurrent' /\ ClearingIsAlone'
      BY <1>3, <2>1 DEF Kept, UserIsOfPhone, ReadsAreCurrent, ClearingIsAlone, Clearing, UserOf
    <2> QED BY <2>2, <2>3, <2>4 DEF Kept
  <1> QED BY <1>4, <1>5, <1>6 DEF Good

-----------------------------------------------------------------------------
(* The invariant holds *)

LEMMA LoginInitHolds == LoginInit => LoginInv
  <1> SUFFICES ASSUME LoginInit PROVE LoginInv
    OBVIOUS
  <1>1. Typing
    <2>1. \A b \in Admins : CallOK(calls[b], Len(clients)) /\ calls[b] \in Call
      BY NoCallOK DEF LoginInit, CallOK
    <2>2. row \in Row /\ store \in [client : 0 .. Len(clients), old : BOOLEAN]
      BY DEF LoginInit, Row, NoStore
    <2>3. /\ signed \in Seq(Nat) /\ Len(signed) = 0 /\ file \in 0 .. Len(signed) /\ torn \in BOOLEAN
          /\ clients \in Seq(Client) /\ Len(clients) = 0
      <3>1. <<>> \in Seq(Nat) /\ Len(<<>>) = 0 /\ 0 \in 0 .. 0
        OBVIOUS
      <3>2. <<>> \in Seq(Client)
        OBVIOUS
      <3> QED BY <3>1, <3>2 DEF LoginInit
    <2>4. (row.session => row.there) /\ calls \in [Admins -> Call]
      BY <2>1 DEF LoginInit
    <2>5. \A c \in 1 .. Len(clients) : clients[c].file \in 1 .. Len(signed)
      BY <2>3
    <2> QED BY <2>1, <2>2, <2>3, <2>4, <2>5 DEF Typing
  <1>2. \A b \in Admins : calls[b].op = "none"
    BY DEF LoginInit, NoCall
  <1>3. NobodyLeaks /\ StoreIsVerified /\ OnTheFile
    BY <1>2 DEF LoginInit, NobodyLeaks, StoreIsVerified, OnTheFile, Held
  <1>4. UserIsOfPhone /\ ReadsAreCurrent /\ SignedIsSaved /\ ClearingIsAlone /\ SessionHasFile
    BY <1>2 DEF LoginInit, UserIsOfPhone, ReadsAreCurrent, SignedIsSaved, ClearingIsAlone,
         SessionHasFile, UserOf, Clearing
  <1> QED BY <1>1, <1>3, <1>4 DEF LoginInv, Kept

LEMMA LoginNextHolds == LoginInv /\ [LoginNext]_loginVars => LoginInv'
  <1> SUFFICES ASSUME LoginInv, [LoginNext]_loginVars PROVE LoginInv'
    OBVIOUS
  <1>1. Typing'
    BY TypingHolds DEF LoginInv
  <1>2. ASSUME ~ torn' PROVE Good'
    <2>1. ASSUME NEW a \in Admins,
                 \/ BeginRequest(a) \/ CodeSent(a) \/ CodeNotSent(a)
                 \/ BeginVerify(a) \/ SignIn(a) \/ SignInFails(a) \/ PasswordNeeded(a) \/ Save(a)
                 \/ SaveFails(a) \/ Finally(a)
                 \/ BeginSync(a) \/ EndSync(a) \/ SyncFails(a)
                 \/ BeginCli(a) \/ CliSave(a) \/ CliFails(a)
          PROVE  Good'
      BY <1>2, <2>1, BeginRequestHolds, CodeSentHolds, GoesOnHolds, BeginVerifyHolds, SignInHolds,
         PasswordHolds, SaveHolds, BeginSyncHolds, EndSaveHolds
    <2>2. ASSUME NEW a \in Admins,
                 BeginClear(a, "logout") \/ BeginClear(a, "credentials") \/ Logout(a) \/ UpdateCredentials(a)
          PROVE  Good'
      BY <1>2, <2>2, BeginClearHolds, ClearedHolds DEF Clearing
    <2>3. CASE DeletePersona \/ TimePasses \/ Revoked \/ UNCHANGED loginVars
      BY <1>2, <2>3, MeanwhileHolds
    <2>4. CASE Restart
      BY <1>2, <2>4, RestartHolds
    <2> QED BY <2>1, <2>2, <2>3, <2>4 DEF LoginNext
  <1> QED BY <1>1, <1>2 DEF LoginInv, Good

LEMMA SessionOfInv == LoginInv => SessionIsThePersonas
  <1> SUFFICES ASSUME LoginInv, ~ torn PROVE RowNamesItsFile /\ NobodyLeaks
    BY DEF SessionIsThePersonas
  <1>1. ASSUME row.session, ~ Busy(Clearing)
        PROVE  file # 0 /\ signed[file] \in {0, row.phone} /\ row.user = row.phone
    <2>1. Kept
      BY <1>1 DEF LoginInv, Typing
    <2> QED BY <1>1, <2>1 DEF Kept, SessionHasFile, SignedIsSaved, UserIsOfPhone, UserOf
  <1> QED BY <1>1 DEF LoginInv, RowNamesItsFile

\* As long as no call was torn, the row of a persona that says it has a session
\* has the file, signed in as the account and the phone of the row, and no
\* client is left open: for any number of calls at a time.
THEOREM SessionsStayThePersonas == LoginSpec => []SessionIsThePersonas
  BY LoginInitHolds, LoginNextHolds, SessionOfInv, PTL DEF LoginSpec
=============================================================================
