------------------------------- MODULE DataDir -------------------------------
(***************************************************************************)
(* The server's data directory, through starts, crashes and invites minted  *)
(* from the command line.  A start prepares the directory, loads the        *)
(* server's key or creates it, opens the database, creating and migrating   *)
(* it, and binds the port (Server::bind).  `throcc-server admin-invite'     *)
(* writes an invite into the database of a server that may be running.      *)
(* Every process may be started while another is at work, and die between   *)
(* any two steps.                                                          *)
(*                                                                         *)
(* A key is the number of the process step that drew it.  Whether the group *)
(* a file is open to is a pod's only decides how loudly it is logged.       *)
(***************************************************************************)
EXTENDS Naturals, FiniteSets

CONSTANTS Processes,
          MaxKeys,    \* bound: keys drawn
          MaxMounts   \* bound: mounts that open the volume up again

NoProcess == "nobody"

ASSUME DataDirAssumption == MaxKeys \in Nat /\ MaxMounts \in Nat /\ NoProcess \notin Processes

\* The schema this binary uses, and one from a newer server.
Schema == 1
Newer == 2

VARIABLES dir,      \* the directory: there or not, whose, open to others or not
          keyFile,  \* server_key
          dbFile,   \* the database and its journal files
          process,  \* what each process is and how far it got
          port,     \* the process that has the port, if any
          drawn,    \* keys drawn so far
          mounts

dataDirVars == <<dir, keyFile, dbFile, process, port, drawn, mounts>>

Off == [at |-> "off"]
NotThere == [there |-> FALSE, own |-> TRUE, open |-> FALSE]
Private == [there |-> TRUE, own |-> TRUE, open |-> FALSE]
Partial == 0

NoKeyFile == [file |-> NotThere, key |-> Partial]
NoDatabase == [file |-> NotThere, version |-> 0, invites |-> {}]

\* A fresh machine, a directory somebody made, files another user owns, or the database of
\* a newer server.
DataDirInit ==
  /\ \E own, open \in BOOLEAN : dir \in {NotThere, [there |-> TRUE, own |-> own, open |-> open]}
  /\ keyFile \in {NoKeyFile, [file |-> [Private EXCEPT !.own = FALSE], key |-> MaxKeys + 1]}
  /\ dbFile \in {NoDatabase, [file |-> Private, version |-> Newer, invites |-> {}],
                 [NoDatabase EXCEPT !.file = [Private EXCEPT !.own = FALSE]]}
  /\ keyFile.file.there \/ dbFile.file.there => dir.there
  /\ process = [p \in Processes |-> Off] /\ port = NoProcess /\ drawn = 0 /\ mounts = 0

Goes(p, at) == process' = [process EXCEPT ![p].at = at]

\* Whichever step fails, the process ends and leaves what it did so far.
Fails(p) == process' = [process EXCEPT ![p] = Off]

-----------------------------------------------------------------------------
(* Files *)

\* tighten: ours is closed to others; a directory of somebody else is used as it is, a
\* file of theirs refused.
Tightened(f) == IF f.there /\ f.own THEN [f EXCEPT !.open = FALSE] ELSE f
Foreign(f) == f.there /\ ~f.own

\* A mutant of Checked: only the owner is looked at.
CheckedOwner(f) == f

\* check_private_file.
Checked(f) == Tightened(f)

-----------------------------------------------------------------------------
(* A start, or a mint *)

StartServer(p) ==
  /\ process[p] = Off
  /\ process' = [process EXCEPT ![p] = [at |-> "prepare", mints |-> FALSE, key |-> Partial]]
  /\ UNCHANGED <<dir, keyFile, dbFile, port, drawn, mounts>>

StartMint(p) ==
  /\ process[p] = Off
  /\ process' = [process EXCEPT ![p] = [at |-> "exist", mints |-> TRUE, key |-> Partial]]
  /\ UNCHANGED <<dir, keyFile, dbFile, port, drawn, mounts>>

PrepareDataDir(p) ==
  /\ process[p].at = "prepare"
  /\ dir' = IF dir.there THEN Tightened(dir) ELSE Private
  /\ Goes(p, "check")
  /\ UNCHANGED <<keyFile, dbFile, port, drawn, mounts>>

\* A mutant of MayMint: nothing needs to be there.
MayMintAnywhere == TRUE

\* admin_invite: the key and the database exist and are ours.
MayMint ==
  /\ keyFile.file.there /\ dbFile.file.there
  /\ ~Foreign(keyFile.file) /\ ~Foreign(dbFile.file)

MintChecks(p) ==
  /\ process[p].at = "exist"
  /\ IF MayMint THEN Goes(p, "check") ELSE Fails(p)
  /\ UNCHANGED <<dir, keyFile, dbFile, port, drawn, mounts>>

\* load_or_create, its checks.
CheckKey(p) ==
  /\ process[p].at = "check"
  /\ IF Foreign(keyFile.file) THEN Fails(p) /\ UNCHANGED keyFile
     ELSE Goes(p, "read") /\ keyFile' = [keyFile EXCEPT !.file = Checked(@)]
  /\ UNCHANGED <<dir, dbFile, port, drawn, mounts>>

\* A whole key is taken, a part of one is none; without a file a new key is drawn.
ReadKey(p) ==
  /\ process[p].at = "read"
  /\ IF keyFile.file.there
       THEN /\ IF keyFile.key = Partial THEN Fails(p)
               ELSE process' = [process EXCEPT ![p].at = "open", ![p].key = keyFile.key]
            /\ UNCHANGED drawn
     ELSE /\ drawn < MaxKeys /\ drawn' = drawn + 1
          /\ process' = [process EXCEPT ![p].at = "create", ![p].key = drawn + 1]
  /\ UNCHANGED <<dir, keyFile, dbFile, port, mounts>>

\* A mutant of MayCreateKey: an existing file is emptied and written again.
MayCreateKeyAnew == dir.there

\* write_private opens the file only if it is new.
MayCreateKey == dir.there /\ ~keyFile.file.there

CreateKey(p) ==
  /\ process[p].at = "create"
  /\ IF MayCreateKey THEN Goes(p, "write") /\ keyFile' = [file |-> Private, key |-> Partial]
     ELSE Fails(p) /\ UNCHANGED keyFile
  /\ UNCHANGED <<dir, dbFile, port, drawn, mounts>>

WriteKey(p) ==
  /\ process[p].at = "write"
  /\ keyFile' = [keyFile EXCEPT !.key = process[p].key]
  /\ Goes(p, "open")
  /\ UNCHANGED <<dir, dbFile, port, drawn, mounts>>

\* Database::open: checks the files, creates the database empty, or takes it as it is.
OpenDatabase(p) ==
  /\ process[p].at = "open" /\ ~process[p].mints
  /\ IF Foreign(dbFile.file) THEN Fails(p) /\ UNCHANGED dbFile
     ELSE /\ dbFile' = [dbFile EXCEPT !.file = IF @.there THEN Checked(@) ELSE Private]
          /\ Goes(p, "migrate")
  /\ UNCHANGED <<dir, keyFile, port, drawn, mounts>>

\* migrate: each version in one transaction; a newer one is refused.
Migrate(p) ==
  /\ process[p].at = "migrate"
  /\ IF dbFile.version > Schema THEN Fails(p) /\ UNCHANGED dbFile
     ELSE dbFile' = [dbFile EXCEPT !.version = Schema] /\ Goes(p, "bind")
  /\ UNCHANGED <<dir, keyFile, port, drawn, mounts>>

Bind(p) ==
  /\ process[p].at = "bind"
  /\ IF port = NoProcess THEN port' = p /\ Goes(p, "running") ELSE UNCHANGED port /\ Fails(p)
  /\ UNCHANGED <<dir, keyFile, dbFile, drawn, mounts>>

\* open_existing: neither creates nor migrates, and takes only this binary's schema.
OpenExisting(p) ==
  /\ process[p].at = "open" /\ process[p].mints
  /\ IF Foreign(dbFile.file) \/ ~dbFile.file.there \/ dbFile.version # Schema
       THEN Fails(p) /\ UNCHANGED dbFile
     ELSE dbFile' = [dbFile EXCEPT !.file = Checked(@)] /\ Goes(p, "mint")
  /\ UNCHANGED <<dir, keyFile, port, drawn, mounts>>

\* The invite is stored, then printed beside the fingerprint.
Mint(p) ==
  /\ process[p].at = "mint"
  /\ dbFile' = [dbFile EXCEPT !.invites = @ \cup {process[p].key}]
  /\ Fails(p)
  /\ UNCHANGED <<dir, keyFile, port, drawn, mounts>>

\* A process stops or dies, wherever it is.
Dies(p) ==
  /\ process[p] # Off /\ Fails(p)
  /\ port' = IF port = p THEN NoProcess ELSE port
  /\ UNCHANGED <<dir, keyFile, dbFile, drawn, mounts>>

\* The volume is mounted anew, open to the pod's group, before anything is started on it.
Mounted ==
  /\ \A p \in Processes : process[p] = Off
  /\ mounts < MaxMounts /\ mounts' = mounts + 1
  /\ dir' = [dir EXCEPT !.open = dir.there]
  /\ keyFile' = [keyFile EXCEPT !.file.open = keyFile.file.there]
  /\ dbFile' = [dbFile EXCEPT !.file.open = dbFile.file.there]
  /\ UNCHANGED <<process, port, drawn>>

DataDirNext ==
  \/ Mounted
  \/ \E p \in Processes :
       \/ StartServer(p) \/ StartMint(p) \/ PrepareDataDir(p) \/ MintChecks(p) \/ CheckKey(p)
       \/ ReadKey(p) \/ CreateKey(p) \/ WriteKey(p) \/ OpenDatabase(p) \/ Migrate(p)
       \/ Bind(p) \/ OpenExisting(p) \/ Mint(p) \/ Dies(p)

DataDirSpec == DataDirInit /\ [][DataDirNext]_dataDirVars

-----------------------------------------------------------------------------
\* Servers and invites all go by one key, the one on the disk: neither a second start, nor a
\* mint beside a start, nor a crash in the middle of one gives out another fingerprint than
\* the one clients pin (identity.rs load_or_create, write_private).
OneIdentity ==
  \A k \in {process[p].key : p \in {q \in Processes : process[q].at \in {"running", "mint"}}}
             \cup dbFile.invites : k = keyFile.key

\* A running server's key and database are its own and closed to everyone else, whatever
\* mode the volume came with (files.rs tighten; database.rs check_private_files).
ServedPrivate ==
  port # NoProcess => keyFile.file = Private /\ dbFile.file = Private

\* Minting leaves a directory no server has started in as it is: "minting into a fresh
\* directory, say after a mistyped --data, would print an invite and a fingerprint no
\* running server knows" (lib.rs admin_invite).
MintCreatesNothing ==
  [][(\E p \in Processes : process[p].at \notin {"off", "exist"} /\ process[p].mints
                             /\ process'[p] # process[p])
       => dir' = dir /\ keyFile'.file.there = keyFile.file.there
          /\ keyFile'.key = keyFile.key /\ dbFile'.version = dbFile.version]_dataDirVars

\* One directory is one server, and its own (identity.rs, files.rs, lib.rs).
DirectoryKept == [](OneIdentity /\ ServedPrivate) /\ MintCreatesNothing

=============================================================================
