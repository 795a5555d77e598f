----------------------------- MODULE SmartCards -----------------------------
(***************************************************************************)
(* Signatures of a smart card behind PKCS#11: cert_pkcs_sign() in the      *)
(* threads of the transports, the cache of PINs and the list of libraries  *)
(* that they share without a lock (cert_pkcs.c, cert_common.c,             *)
(* pkcs_helper.c), and the main thread that loads keys of cards, forgets   *)
(* the PINs and finalizes the library when a device comes or goes.         *)
(*                                                                         *)
(* The library is external.  Its handles are numbers from 1 up, the lowest *)
(* that is free; a user is logged in to the token until the last of its    *)
(* sessions is closed.  The calls of one step here are those between which *)
(* nothing of another thread makes a difference that it does not also make *)
(* before or after them.                                                   *)
(***************************************************************************)
EXTENDS Integers, Sequences, FiniteSets, SequencesExt

CONSTANTS
  Signers,        \* threads that sign
  Certs,          \* certificates of the card: each names its key
  Pins,           \* what a user may type
  Torn, NoPin,    \* what is read of freed memory; no PIN at all
  SlotList,       \* the identifiers of the reader's slots
  CardSlot,       \* the one with the card; in the others are other tokens
  MaxSessions,    \* that the library opens at a time
  MaxSignatures,  \* bound: requests
  MaxCardEvents       \* bound: what the main thread, the user and the card do

ASSUME CardsAssumption ==
  /\ SlotList \in Seq(Nat) /\ CardSlot \in ToSet(SlotList)
  /\ MaxSessions \in Nat /\ Torn \notin Pins /\ NoPin \notin Pins

VARIABLES
  Initialized,    \* of the library's PROGRAM_ITEM
  sessions,       \* the open handles and their slots
  loggedIn,       \* to the card
  inserted,       \* the card is in its slot
  cardPin,        \* the card's PIN
  PinCacheList,   \* certificates and PINs, the latest first
  NextItem,       \* of the item that a thread makes: what it is to be put in front of
  signer,         \* what each thread is at
  disturbed,      \* threads whose session, or login, something else has touched
  accepted,       \* the PINs that a login succeeded with
  signatures, cardEvents

cardVars == <<Initialized, sessions, loggedIn, inserted, cardPin, PinCacheList, NextItem, signer,
              disturbed, accepted, signatures, cardEvents>>

NoHandle == 0
Handles == 1..(MaxSessions + 1)
Idle == [pc |-> "idle", cert |-> NoPin, handle |-> NoHandle, pin |-> NoPin]

CardsInit ==
  /\ Initialized = TRUE /\ sessions = <<>> /\ loggedIn = FALSE /\ inserted = TRUE
  /\ cardPin \in Pins /\ PinCacheList = <<>> /\ NextItem = [t \in Signers |-> <<>>]
  /\ signer = [t \in Signers |-> Idle]
  /\ disturbed = {} /\ accepted = {} /\ signatures = 0 /\ cardEvents = 0

-----------------------------------------------------------------------------
(* The library.                                                             *)

WithoutHandle(open, h) == [i \in DOMAIN open \ {h} |-> open[i]]
OnCard(open) == {h \in DOMAIN open : open[h] = CardSlot}

Library == [open |-> sessions, in |-> loggedIn, closed |-> {}]
C_CloseSession(lib, h) ==
  LET open == WithoutHandle(lib.open, h)
  IN [open |-> open, in |-> lib.in /\ OnCard(open) # {}, closed |-> lib.closed \cup {h}]

FreeHandle(open) == CHOOSE h \in Handles : h \notin DOMAIN open /\ \A i \in 1..(h - 1) : i \in DOMAIN open
C_OpenSession(lib, slot) ==
  [lib EXCEPT !.open = [h \in DOMAIN @ \cup {FreeHandle(@)} |-> IF h \in DOMAIN @ THEN @[h] ELSE slot]]

Present(slot) == slot # CardSlot \/ inserted

\* A handle is worth something as long as it is open; after C_Finalize() another
\* thread may have it.
OnTheCard(t) == signer[t].handle \in OnCard(sessions)

-----------------------------------------------------------------------------
(* pkcs_lookup_token_cert().                                                *)

\* A session of a slot that does not have the key is not closed: the handle that
\* is closed is the one that happens to be the slot's number.
TrySlot(found, slot) ==
  LET opened == C_OpenSession(found.lib, slot)
      h == FreeHandle(found.lib.open)
  IN IF found.handle # NoHandle \/ ~Present(slot) \/ Cardinality(DOMAIN found.lib.open) = MaxSessions
     THEN found
     ELSE IF slot = CardSlot THEN [lib |-> opened, handle |-> h]
     ELSE [lib |-> C_CloseSession(opened, slot), handle |-> NoHandle]

\* Mutant of Lookup: the session is closed on the way out.
LookupAndClose(lib) ==
  LET tried[n \in 0..Len(SlotList)] ==
        IF n = 0 THEN [lib |-> lib, handle |-> NoHandle] ELSE TrySlot(tried[n - 1], SlotList[n])
      found == tried[Len(SlotList)]
  IN [found EXCEPT !.lib = C_CloseSession(@, found.handle)]

\* (The loop is a recursive function, of which a proof can follow every turn.)
Lookup(lib) ==
  LET tried[n \in 0..Len(SlotList)] ==
        IF n = 0 THEN [lib |-> lib, handle |-> NoHandle] ELSE TrySlot(tried[n - 1], SlotList[n])
  IN tried[Len(SlotList)]

\* Threads whose session was closed; the handle may be open again.
Touched(lib) == {t \in Signers : signer[t].pc # "idle" /\ signer[t].handle \in lib.closed}

\* cert_pkcs_load_library() initializes it again if need be.
Use(lib) == Initialized' = TRUE /\ sessions' = lib.open /\ loggedIn' = lib.in

-----------------------------------------------------------------------------
(* cert_pkcs_sign().                                                        *)

Goes(t, pc) == signer' = [signer EXCEPT ![t].pc = pc]

\* Its answer, with the session closed: a signature, or NULL.
Return(t) ==
  /\ LET lib == C_CloseSession(Library, signer[t].handle)
     IN /\ sessions' = lib.open /\ loggedIn' = lib.in
        /\ disturbed' = (disturbed \cup Touched(lib)) \ {t}
  /\ signer' = [signer EXCEPT ![t] = Idle]
  /\ UNCHANGED <<Initialized, inserted, cardPin, PinCacheList, NextItem, accepted, signatures,
                 cardEvents>>

\* The slots are looked through for the public key.
Begin(t) ==
  /\ signer[t].pc = "idle" /\ signatures < MaxSignatures
  /\ signatures' = signatures + 1
  /\ LET found == Lookup(Library)
     IN /\ Use(found.lib)
        /\ disturbed' = (disturbed \cup Touched(found.lib)) \ {t}
        /\ \E c \in Certs :
             signer' = [signer EXCEPT ![t] =
                          IF found.handle = NoHandle THEN Idle
                          ELSE [pc |-> "found", cert |-> c, handle |-> found.handle, pin |-> NoPin]]
  /\ UNCHANGED <<inserted, cardPin, PinCacheList, NextItem, accepted, cardEvents>>

\* The private key shows without a PIN as long as the token is logged in to.
FindPrivate(t) ==
  /\ signer[t].pc = "found"
  /\ IF OnTheCard(t)
     THEN /\ Goes(t, IF loggedIn THEN "sign" ELSE "pin")
          /\ UNCHANGED <<Initialized, sessions, loggedIn, inserted, cardPin, PinCacheList,
                         NextItem, disturbed, accepted, signatures, cardEvents>>
     ELSE Return(t)

-----------------------------------------------------------------------------
(* The cache of PINs: a linked list with no lock (cert_common.c).           *)

\* Memory that was freed, where an item was: what is read of it may or may not be
\* taken for the certificate's, and nothing is behind it.  (The process may end, too.)
Freed == [cert |-> NoPin, pin |-> Torn]

CachedFor(cert) == {i \in DOMAIN PinCacheList : PinCacheList[i].cert \in {cert, NoPin}}

\* What cert_pin_load_cache() may return: the first PIN for the certificate.
PinFound(t) ==
  LET found == CachedFor(signer[t].cert)
  IN IF signer[t].pc \in {"torn", "tornSave"} THEN {Torn, NoPin}
     ELSE IF found = {} THEN {NoPin}
     ELSE IF PinCacheList[Min(found)] = Freed THEN {Torn, NoPin}
     ELSE {PinCacheList[Min(found)].pin}

\* cert_pin(): of the cache, or the user is asked.
ReadPin(t) ==
  /\ signer[t].pc \in {"pin", "torn"}
  /\ \E pin \in PinFound(t) :
       signer' = [signer EXCEPT ![t].pin = pin, ![t].pc = IF pin = NoPin THEN "asked" ELSE "login"]
  /\ UNCHANGED <<Initialized, sessions, loggedIn, inserted, cardPin, PinCacheList, NextItem,
                 disturbed, accepted, signatures, cardEvents>>

-----------------------------------------------------------------------------
(* The login, and what comes after it.                                      *)

PinTyped(t) ==
  /\ signer[t].pc = "asked"
  /\ \E pin \in Pins : signer' = [signer EXCEPT ![t].pin = pin, ![t].pc = "login"]
  /\ UNCHANGED <<Initialized, sessions, loggedIn, inserted, cardPin, PinCacheList, NextItem,
                 disturbed, accepted, signatures, cardEvents>>

PinCancelled(t) == signer[t].pc = "asked" /\ Return(t)

\* Threads that were about to log in are too late.
Late(t) == {u \in Signers \ {t} : signer[u].pc \in {"pin", "torn", "asked", "login"}}
Succeeds(t) == OnTheCard(t) /\ ~loggedIn /\ signer[t].pin = cardPin

\* Mutant of Login: the PIN is kept before the card has seen it.
LoginAndSave(t) ==
  /\ signer[t].pc = "login"
  /\ Goes(t, "save")
  /\ loggedIn' = (loggedIn \/ Succeeds(t))
  /\ accepted' = IF Succeeds(t) THEN accepted \cup {cardPin} ELSE accepted
  /\ disturbed' = disturbed \cup Late(t)
  /\ UNCHANGED <<Initialized, sessions, inserted, cardPin, PinCacheList, NextItem, signatures,
                 cardEvents>>

\* A wrong PIN, and one that comes when somebody is logged in already, are the
\* same failure.
Login(t) ==
  /\ signer[t].pc = "login"
  /\ IF Succeeds(t)
     THEN /\ Goes(t, "save")
          /\ loggedIn' = TRUE /\ accepted' = accepted \cup {cardPin}
          /\ disturbed' = disturbed \cup Late(t)
          /\ UNCHANGED <<Initialized, sessions, inserted, cardPin, PinCacheList, NextItem,
                         signatures, cardEvents>>
     ELSE Return(t)

\* cert_pin() once more: it keeps a PIN for a certificate that has none,
SavePin(t) ==
  /\ signer[t].pc \in {"save", "tornSave"}
  /\ \E pin \in PinFound(t) : Goes(t, IF pin = NoPin THEN "link" ELSE "again")
  /\ UNCHANGED <<Initialized, sessions, loggedIn, inserted, cardPin, PinCacheList, NextItem,
                 disturbed, accepted, signatures, cardEvents>>

\* in an item whose NextItem is the list's first,
LinkPin(t) ==
  /\ signer[t].pc = "link"
  /\ NextItem' = [NextItem EXCEPT ![t] = PinCacheList]
  /\ Goes(t, "push")
  /\ UNCHANGED <<Initialized, sessions, loggedIn, inserted, cardPin, PinCacheList, disturbed,
                 accepted, signatures, cardEvents>>

\* and which then is the list's first.
PushPin(t) ==
  /\ signer[t].pc = "push"
  /\ PinCacheList' = <<[cert |-> signer[t].cert, pin |-> signer[t].pin]>> \o NextItem[t]
  /\ NextItem' = [NextItem EXCEPT ![t] = <<>>]
  /\ Goes(t, "again")
  /\ UNCHANGED <<Initialized, sessions, loggedIn, inserted, cardPin, disturbed, accepted,
                 signatures, cardEvents>>

FindAgain(t) ==
  /\ signer[t].pc = "again"
  /\ IF OnTheCard(t) /\ loggedIn
     THEN /\ Goes(t, "sign")
          /\ UNCHANGED <<Initialized, sessions, loggedIn, inserted, cardPin, PinCacheList,
                         NextItem, disturbed, accepted, signatures, cardEvents>>
     ELSE Return(t)

Signed(t) == OnTheCard(t) /\ loggedIn

\* C_SignInit() and C_Sign(); of an error a message box tells, and waits.
Sign(t) ==
  /\ signer[t].pc = "sign"
  /\ Goes(t, IF Signed(t) THEN "done" ELSE "shown")
  /\ UNCHANGED <<Initialized, sessions, loggedIn, inserted, cardPin, PinCacheList, NextItem,
                 disturbed, accepted, signatures, cardEvents>>

Close(t) == signer[t].pc \in {"done", "shown"} /\ Return(t)

-----------------------------------------------------------------------------
(* The main thread, the user and the card.                                  *)

CardEvent == cardEvents < MaxCardEvents /\ cardEvents' = cardEvents + 1
Busy == {t \in Signers : signer[t].pc # "idle"}

\* SmartcardLoad(): nobody closes the session of a key that was loaded.
LoadKey ==
  /\ CardEvent
  /\ LET found == Lookup(Library)
     IN Use(found.lib) /\ disturbed' = disturbed \cup Touched(found.lib)
  /\ UNCHANGED <<inserted, cardPin, PinCacheList, NextItem, signer, accepted, signatures>>

\* cert_forget_pin() frees the list, whoever searches it or is about to put an item in
\* front of it.  (A list that ends in freed memory is freed twice there; if the heap
\* survives that, the list is empty.)
ForgetPin ==
  /\ CardEvent
  /\ PinCacheList' = <<>>
  /\ NextItem' = [t \in Signers |-> IF NextItem[t] = <<>> THEN <<>> ELSE <<Freed>>]
  /\ signer' = [t \in Signers |->
                  IF PinCacheList = <<>> THEN signer[t]
                  ELSE CASE signer[t].pc = "pin" -> [signer[t] EXCEPT !.pc = "torn"]
                         [] signer[t].pc = "save" -> [signer[t] EXCEPT !.pc = "tornSave"]
                         [] OTHER -> signer[t]]
  /\ UNCHANGED <<Initialized, sessions, loggedIn, inserted, cardPin, disturbed, accepted,
                 signatures>>

\* WM_DEVICECHANGE, of whatever device: cert_pkcs11dll_finalize().
Finalize ==
  /\ CardEvent
  /\ IF Initialized
     THEN Initialized' = FALSE /\ sessions' = <<>> /\ loggedIn' = FALSE /\ disturbed' = disturbed \cup Busy
     ELSE UNCHANGED <<Initialized, sessions, loggedIn, disturbed>>
  /\ UNCHANGED <<inserted, cardPin, PinCacheList, NextItem, signer, accepted, signatures>>

MoveCard ==
  /\ CardEvent
  /\ inserted' = ~inserted
  /\ sessions' = [h \in DOMAIN sessions \ OnCard(sessions) |-> sessions[h]]
  /\ loggedIn' = FALSE
  /\ disturbed' = disturbed \cup Busy
  /\ UNCHANGED <<Initialized, cardPin, PinCacheList, NextItem, signer, accepted, signatures>>

\* Some other program gives the card another PIN.
ChangePin ==
  /\ CardEvent
  /\ \E pin \in Pins : pin # cardPin /\ cardPin' = pin
  /\ UNCHANGED <<Initialized, sessions, loggedIn, inserted, PinCacheList, NextItem, signer,
                 disturbed, accepted, signatures>>

CardsNext ==
  \/ \E t \in Signers :
       \/ Begin(t) \/ FindPrivate(t) \/ ReadPin(t) \/ PinTyped(t) \/ PinCancelled(t) \/ Login(t)
       \/ SavePin(t) \/ LinkPin(t) \/ PushPin(t) \/ FindAgain(t) \/ Sign(t) \/ Close(t)
  \/ LoadKey \/ ForgetPin \/ Finalize \/ MoveCard \/ ChangePin

CardsSpec == CardsInit /\ [][CardsNext]_cardVars

-----------------------------------------------------------------------------

Steps == {"idle", "found", "pin", "torn", "asked", "login", "save", "tornSave", "link", "push",
          "again", "sign", "done", "shown"}

\* Values keep their types, and no more sessions are open than the library has.
CardsTypeOK ==
  /\ Initialized \in BOOLEAN /\ loggedIn \in BOOLEAN /\ inserted \in BOOLEAN /\ cardPin \in Pins
  /\ DOMAIN sessions \subseteq 1..MaxSessions
  /\ \A h \in DOMAIN sessions : sessions[h] \in ToSet(SlotList)
  /\ loggedIn => OnCard(sessions) # {}
  /\ \A t \in Signers :
       signer[t] \in [pc : Steps, cert : Certs \cup {NoPin}, handle : {NoHandle} \cup Handles,
                      pin : Pins \cup {Torn, NoPin}]
  /\ PinCacheList \in Seq([cert : Certs, pin : Pins] \cup {Freed})
  /\ NextItem \in [Signers -> Seq([cert : Certs, pin : Pins] \cup {Freed})]
  /\ disturbed \subseteq Signers /\ accepted \subseteq Pins

\* Every PIN that the cache has, the card took, whoever typed what at the same time,
\* and whatever was read of memory that was freed: only what a login succeeded with is
\* ever kept.  (Freed memory may be in the list as well: PushPin
\* puts an item in front of what ForgetPin has freed.)
PinsWereRight ==
  \A i \in 1..Len(PinCacheList) : PinCacheList[i] = Freed \/ PinCacheList[i].pin \in accepted

\* A signature that got as far as the session, and whose PIN, if it needed one, is
\* right, is made, unless the card or the library went away, another thread
\* logged in first, or a session of a wrong slot cost it its own.
SignsUnlessDisturbed ==
  [][ \A t \in Signers :
        signer[t].pc # "idle" /\ signer'[t].pc = "idle" =>
          \/ signer[t].pc = "done" \/ t \in disturbed
          \/ signer[t].pc = "asked"
          \/ signer[t].pc = "login" /\ signer[t].pin # cardPin ]_cardVars
=============================================================================
