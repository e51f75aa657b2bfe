---------------------------- MODULE ServingSnapshot ----------------------------
(***************************************************************************)
(* terminal/storage.py: the terminal never opens the canonical warehouse.  *)
(* A publisher (festival terminal publish) copies it to a temporary file,  *)
(* strips the tables of the analysts' workspace, writes and verifies the   *)
(* manifest, renames the file to its final name and replaces CURRENT.json. *)
(* The terminal (terminal/server.py) validates the file CURRENT names and  *)
(* opens it, or does not start.  The warehouse is that of EventAlerts,     *)
(* whose programs may write between two steps of a publisher: each step    *)
(* opens the database for itself, and fails while a writer has it.         *)
(* The temporary of CURRENT.json has one name: publishers share it, and an *)
(* open descriptor follows the file when it is renamed.                    *)
(***************************************************************************)
EXTENDS EventAlerts

CONSTANTS Publishers,
          Ids           \* snapshot ids: the second of the publication, or given

\* What a served file holds; none of them is null.
Files == [cut : Nat, alerts : SUBSET AlertKeys,
          edges : SUBSET (AlertKeys \X {"EVENT", "ARTIST", "PROMOTER"}),
          workspace : {FALSE}, status : {"VERIFIED"}, counts : Nat]

ASSUME FileAssumption == None \notin Files

VARIABLES
  files,      \* the final files, by snapshot id
  current,    \* CURRENT.json: None, an id, or "" when it holds no document
  temp,       \* CURRENT.json.tmp, likewise
  pub         \* the publishers

ssVars == <<files, current, temp, pub>>
vars == <<eaVars, ssVars>>

Off == [pc |-> "off", id |-> None, counted |-> 0, file |-> None, fd |-> None]

SSInit ==
  /\ EAInit
  /\ files = [i \in Ids |-> None] /\ current = None /\ temp = None
  /\ pub = [p \in Publishers |-> Off]

At(p, step) == pub[p].pc = step

\* DuckDB refuses a reader while another process has the database open to write.
Readable == pc = "idle"

\* mutant: only the rows that were counted are copied
CopyCounted(counted) == [cut |-> counted, alerts |-> alerts, edges |-> edges,
                         workspace |-> TRUE, status |-> None, counts |-> None]

\* COPY FROM DATABASE: one statement, one state of the warehouse.  The snapshots
\* are append-only: a copy of them is a prefix, told by its length.
Copy(counted) == [cut |-> Len(snapshots), alerts |-> alerts, edges |-> edges,
                  workspace |-> TRUE, status |-> None, counts |-> None]

\* What the manifest says and the file holds: the number of event snapshots
\* stands for those of all critical tables.
Valid(file) == file.status = "VERIFIED" /\ file.counts = file.cut

\* mutant: the row counts are not compared
StatusOnly(file) == file.status = "VERIFIED"

Verified(file) == Valid(file)

\* The except branch: the temporary file is removed, the error raised.
CleanUp(p) == pub' = [pub EXCEPT ![p] = Off]

-----------------------------------------------------------------------------
(* publish_snapshot. *)

\* The final file does not exist; the warehouse is counted.
Begin(p, i) ==
  /\ At(p, "off") /\ files[i] = None /\ Readable
  /\ pub' = [pub EXCEPT ![p] = [Off EXCEPT !.pc = "copy", !.id = i,
                                           !.counted = Len(snapshots)]]
  /\ UNCHANGED <<eaVars, files, current, temp>>

CopyWarehouse(p) ==
  /\ At(p, "copy")
  /\ IF Readable
     THEN pub' = [pub EXCEPT ![p].pc = "seal", ![p].file = Copy(pub[p].counted)]
     ELSE CleanUp(p)
  /\ UNCHANGED <<eaVars, files, current, temp>>

\* The temporary file is the publisher's own until it is renamed: stripping it,
\* writing the manifest (with the status VERIFIED) and verifying it are one step.
Sealed(p) == [pub[p].file EXCEPT !.workspace = FALSE, !.status = "VERIFIED",
                                 !.counts = pub[p].counted]

StripSealVerify(p) ==
  /\ At(p, "seal")
  /\ IF Verified(Sealed(p))
     THEN pub' = [pub EXCEPT ![p].pc = "rename", ![p].file = Sealed(p)]
     ELSE CleanUp(p)
  /\ UNCHANGED <<eaVars, files, current, temp>>

Rename(p) ==
  /\ At(p, "rename")
  /\ files' = [files EXCEPT ![pub[p].id] = pub[p].file]
  /\ pub' = [pub EXCEPT ![p].pc = "open", ![p].file = None]
  /\ UNCHANGED <<eaVars, current, temp>>

\* open(..., "w") creates the temporary, or empties the one that is there.
OpenTemp(p) ==
  /\ At(p, "open")
  /\ temp' = ""
  /\ pub' = [pub EXCEPT ![p].pc = "write", ![p].fd = "temp"]
  /\ UNCHANGED <<eaVars, files, current>>

\* The document reaches the file when it is closed, under the name it has now.
WriteTemp(p) ==
  /\ At(p, "write")
  /\ temp' = IF pub[p].fd = "temp" THEN pub[p].id ELSE temp
  /\ current' = IF pub[p].fd = "current" THEN pub[p].id ELSE current
  /\ pub' = [pub EXCEPT ![p].pc = "replace", ![p].fd = None]
  /\ UNCHANGED <<eaVars, files>>

Renamed(fd) == IF fd = "temp" THEN "current" ELSE IF fd = "current" THEN "gone" ELSE fd

ReplaceCurrent(p) ==
  /\ At(p, "replace")
  /\ IF temp = None
     THEN CleanUp(p) /\ UNCHANGED <<current, temp>>
     ELSE /\ current' = temp /\ temp' = None
          /\ pub' = [q \in Publishers |->
                       IF q = p THEN Off ELSE [pub[q] EXCEPT !.fd = Renamed(@)]]
  /\ UNCHANGED <<eaVars, files>>

\* A publisher dies: its temporary file stays, under a name nobody uses again.
PublisherCrash(p) ==
  /\ pub[p].pc # "off" /\ faults < MaxFaults
  /\ faults' = faults + 1
  /\ CleanUp(p)
  /\ UNCHANGED <<canonical, pc, task, owed, announced, files, current, temp>>

Publication(p) ==
  \/ (\E i \in Ids : Begin(p, i))
  \/ CopyWarehouse(p) \/ StripSealVerify(p) \/ Rename(p)
  \/ OpenTemp(p) \/ WriteTemp(p) \/ ReplaceCurrent(p)
  \/ PublisherCrash(p)

SSNext ==
  \/ (EANext /\ UNCHANGED ssVars)
  \/ (\E p \in Publishers : Publication(p))

SSSpec == SSInit /\ [][SSNext]_vars

-----------------------------------------------------------------------------
(* Properties. *)

Served == {files[i] : i \in Ids}

\* Whatever CURRENT names can be opened: a writer between the count and the copy,
\* a crash between the rename and the pointer, an interrupted write of the
\* pointer never leave the terminal without a snapshot to start on.
CurrentOpens ==
  current # None => /\ current \in Ids
                    /\ files[current] # None /\ Valid(files[current])

\* A served file is one cut of the warehouse, without the analysts' tables: each
\* change alert comes with the two snapshots it compares, each edge with its
\* alert.
ServedIsOneCut ==
  \A file \in Served \ {None} :
    /\ ~file.workspace
    /\ \A x \in file.edges : x[1] \in file.alerts
    /\ \A a \in file.alerts :
         \E i \in 1..file.cut :
           /\ snapshots[i].event = a[2]
           /\ a[1] # "NEW_EVENT" =>
                Previous(i) # 0 /\ a \in Changes(a[2], Before(i), snapshots[i].facts)
===============================================================================
