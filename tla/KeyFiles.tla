------------------------------ MODULE KeyFiles ------------------------------
(***************************************************************************)
(* Loading key files, and the passphrases that are remembered for it:      *)
(* load_keyfile() and PassphraseEnumrator of keyfile.cpp, passphrases.cpp, *)
(* the callers in main.cpp and mainwindow.cpp, and what makes the program  *)
(* forget passphrases.                                                     *)
(*                                                                         *)
(* All of it is the main thread.  A passphrase dialog runs the message     *)
(* loop: meanwhile the terminal is locked, the tray menu starts another    *)
(* load, or a client changes the store.                                    *)
(***************************************************************************)
EXTENDS Integers, Sequences, SequencesExt

CONSTANTS
  Files,
  Putty,            \* those in PuTTY's format; the others are imported
  NewFormat,        \* of the others, those in OpenSSH's new format
  PassOf,           \* what each is encrypted with, or NoPass
  NoPass,
  Unreadable,       \* files with no private part that could be read
  Altered,          \* files whose private part is not what it was
  Passphrases,      \* what a user may type
  PuttySaved,       \* passphrases in PuTTY's own settings
  StartupFiles,     \* the files that the settings list
  MaxLoads, MaxFileEvents     \* bounds

ASSUME FilesAssumption ==
  /\ Putty \subseteq Files /\ NewFormat \subseteq Files \ Putty /\ Unreadable \subseteq Files /\ Altered \subseteq Files
  /\ StartupFiles \in Seq(Files)
  /\ PassOf \in [Files -> Passphrases \cup {NoPass}] /\ NoPass \notin Passphrases
  /\ PuttySaved \subseteq Passphrases /\ IsFiniteSet(PuttySaved)

VARIABLES
  passphrases,      \* remembered, in the order in which they were added
  saved,            \* Passphrases/crypto1 and so on, up to the first that is empty
  save_enable,      \* Passphrase/save_enable
  loads,            \* the loads under way: the last one's dialog is in front
  store,            \* the files whose keys are in the store
  running,
  kept,             \* the passphrases typed with the box ticked and not forgotten since
  fileEvents

fileVars == <<passphrases, saved, save_enable, loads, store, running, kept, fileEvents>>

-----------------------------------------------------------------------------
(* passphrases.cpp.                                                         *)

\* Of the settings and PuTTY's, sorted by what they look like when obfuscated, each
\* once.
passphrase_load_setting == SetToSeq(ToSet(saved) \cup PuttySaved)

\* In the first place that is free.
passphrase_save_setting(p) == IF p \in ToSet(saved) THEN saved ELSE Append(saved, p)

-----------------------------------------------------------------------------
(* load_keyfile(), of one file.                                             *)

\* A load: the files to come, the one whose dialog is open, and if the dialog has a
\* box.
Load(files) == [files |-> files, file |-> NoPass, box |-> FALSE]
Top == loads[Len(loads)]
Becomes(load) == loads' = [loads EXCEPT ![Len(loads)] = load]

\* A key, SSH2_WRONG_PASSPHRASE, or NULL: which OpenSSH's new format gives for a wrong
\* passphrase too.
Opened(file, p) ==
  CASE file \notin Unreadable \cup Altered /\ PassOf[file] \in {NoPass, p} -> "key"
    [] file \in Unreadable \cup NewFormat \/ PassOf[file] = NoPass -> "null"
    [] OTHER -> "wrong"

\* What the remembered passphrases give, the last first, without those that are wrong.
Tried(file) ==
  LET ps == IF PassOf[file] = NoPass THEN <<NoPass>> ELSE Reverse(passphrases)
  IN SelectSeq([i \in DOMAIN ps |-> Opened(file, ps[i])], LAMBDA result : result # "wrong")

\* A key is added unless it is there.  There is nothing that could be compared or
\* copied when it is NULL: the process ends.
Add(file, result) ==
  IF result = "null" THEN running' = FALSE /\ UNCHANGED store
  ELSE store' = store \cup {file} /\ UNCHANGED running

\* PassphraseEnumrator::Save(), after a dialog.
Save(p, tick) ==
  IF tick THEN /\ passphrases' = Append(passphrases, p)
               /\ saved' = passphrase_save_setting(p)
               /\ kept' = kept \cup {p}
  ELSE UNCHANGED <<passphrases, saved, kept>>

\* The next file of the last load.  PuTTY's is not opened if its key is in the
\* store; the remembered passphrases are tried in one go, and the first that is not
\* wrong ends it, with a key or without.
NextFile ==
  /\ running /\ loads # <<>> /\ Top.file = NoPass /\ Top.files # <<>>
  /\ LET file == Head(Top.files)
         rest == Load(Tail(Top.files))
     IN \/ /\ file \in Putty \cap store
           /\ Becomes(rest) /\ UNCHANGED <<store, running>>
        \/ /\ file \notin Putty \cap store /\ Tried(file) # <<>>
           /\ Becomes(rest) /\ Add(file, Head(Tried(file)))
        \/ /\ file \notin Putty \cap store /\ Tried(file) = <<>>
           /\ Becomes([rest EXCEPT !.file = file, !.box = save_enable])
           /\ UNCHANGED <<store, running>>
  /\ UNCHANGED <<passphrases, saved, save_enable, kept, fileEvents>>

\* The dialog comes again after a wrong passphrase.
PassphraseTyped ==
  /\ running /\ loads # <<>> /\ Top.file # NoPass
  /\ \E p \in Passphrases, tick \in IF Top.box THEN BOOLEAN ELSE {FALSE} :
       LET result == Opened(Top.file, p)
       IN IF result = "wrong"
          THEN /\ Becomes([Top EXCEPT !.box = save_enable])
               /\ UNCHANGED <<passphrases, saved, kept, store, running>>
          ELSE /\ Save(p, tick) /\ Becomes(Load(Top.files)) /\ Add(Top.file, result)
  /\ UNCHANGED <<save_enable, fileEvents>>

\* The passphrase is then empty.  An import ends with that; a file of PuTTY's is
\* tried, and the dialog comes again.  (A tick of a try before stays in save_flag_: it
\* would count if the empty passphrase opened the file, and none is encrypted with it.)
PassphraseCancelled ==
  /\ running /\ loads # <<>> /\ Top.file # NoPass
  /\ IF Top.file \in Putty
     THEN /\ running' = (Top.file \notin Unreadable)
          /\ Becomes([Top EXCEPT !.box = save_enable])
     ELSE Becomes(Load(Top.files)) /\ UNCHANGED running
  /\ UNCHANGED <<passphrases, saved, save_enable, store, kept, fileEvents>>

LoadEnds ==
  /\ running /\ loads # <<>> /\ Top.file = NoPass /\ Top.files = <<>>
  /\ loads' = Front(loads)
  /\ UNCHANGED <<passphrases, saved, save_enable, store, running, kept, fileEvents>>

-----------------------------------------------------------------------------
(* What starts loads, and what happens while a dialog is open.              *)

FileEvent == fileEvents < MaxFileEvents /\ fileEvents' = fileEvents + 1

\* Every load that is not the last waits for its dialog.
AtDialog == loads # <<>> => Top.file # NoPass

FilesInit ==
  /\ passphrases = <<>> /\ saved = <<>> /\ kept = {} /\ store = {} /\ loads = <<>>
  /\ save_enable \in BOOLEAN /\ running = FALSE /\ fileEvents = 0

\* main(): the passphrases first, if they are to be loaded at the start, and then
\* the files.
Start ==
  /\ ~running /\ FileEvent
  /\ running' = TRUE /\ store' = {} /\ loads' = <<Load(StartupFiles)>>
  /\ \E atStart \in BOOLEAN :
       passphrases' = IF save_enable /\ atStart THEN passphrase_load_setting ELSE <<>>
  /\ UNCHANGED <<saved, save_enable, kept>>

\* on_pushButtonAddKey_clicked(), of the window or the tray menu.
AddKey ==
  /\ running /\ AtDialog /\ Len(loads) < MaxLoads /\ FileEvent
  /\ \E file \in Files : loads' = Append(loads, Load(<<file>>))
  /\ UNCHANGED <<passphrases, saved, save_enable, store, running, kept>>

\* Mutant of Forget: the settings keep what the memory has forgotten.
ForgetInMemory ==
  /\ running /\ AtDialog /\ FileEvent
  /\ passphrases' = <<>> /\ kept' = {}
  /\ UNCHANGED <<saved, save_enable, loads, store, running>>

\* The settings dialog, or a lock of the terminal.
Forget ==
  /\ running /\ AtDialog /\ FileEvent
  /\ passphrases' = <<>> /\ saved' = <<>> /\ kept' = {}
  /\ UNCHANGED <<save_enable, loads, store, running>>

AllowSaving ==
  /\ running /\ AtDialog /\ FileEvent
  /\ save_enable' = ~save_enable
  /\ UNCHANGED <<passphrases, saved, loads, store, running, kept>>

\* A client adds a key, or removes one.
ClientActs ==
  /\ running /\ FileEvent
  /\ \E file \in Files \ (Unreadable \cup Altered) :
       store' = IF file \in store THEN store \ {file} ELSE store \cup {file}
  /\ UNCHANGED <<passphrases, saved, save_enable, loads, running, kept>>

ProcessEnds ==
  /\ running /\ running' = FALSE /\ FileEvent
  /\ UNCHANGED <<passphrases, saved, save_enable, loads, store, kept>>

FilesNext ==
  \/ NextFile \/ PassphraseTyped \/ PassphraseCancelled \/ LoadEnds
  \/ Start \/ AddKey \/ Forget \/ AllowSaving \/ ClientActs \/ ProcessEnds

FilesSpec == FilesInit /\ [][FilesNext]_fileVars

-----------------------------------------------------------------------------

\* Values keep their types; every load but the last has its dialog open.
FilesTypeOK ==
  /\ passphrases \in Seq(Passphrases) /\ saved \in Seq(Passphrases)
  /\ save_enable \in BOOLEAN /\ running \in BOOLEAN
  /\ loads \in Seq([files : Seq(Files), file : Files \cup {NoPass}, box : BOOLEAN])
  /\ \A i \in 1..(Len(loads) - 1) : loads[i].file # NoPass
  /\ store \subseteq Files /\ kept \subseteq Passphrases

\* The settings have the passphrases whose typing was ticked since the last were
\* forgotten, all of them, each once and across every restart; memory has none that
\* is neither one of those nor PuTTY's, although loads with their own copies of the
\* list were under way when it was forgotten.
RememberedAsTicked ==
  /\ ToSet(saved) = kept /\ \A i, j \in 1..Len(saved) : saved[i] = saved[j] => i = j
  /\ running => ToSet(passphrases) \subseteq kept \cup PuttySaved
=============================================================================
