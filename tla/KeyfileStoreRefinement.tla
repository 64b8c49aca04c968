------------------------ MODULE KeyfileStoreRefinement ------------------------
(***************************************************************************)
(* The default backend as an implementation of ConfigDB: as long as the    *)
(* handles of a domain share a process that is not killed, closing a       *)
(* handle commits its configuration whole and at once, the commit being    *)
(* the unlink of the old file.                                             *)
(***************************************************************************)
EXTENDS KeyfileStore

(* Between unlink and rename the database is the temporary file.           *)
dbBar ==
  IF \E h \in Handle : pc[h] = "unlinked" THEN file[Tmp].text ELSE file[Loc].text

openBar == [h \in Handle |-> pc[h] \notin {"closed", "unlinked"}]

(* fclose done, keyfile_destroy has freed the keyfile: its text remains.   *)
copyBar == [h \in Handle |-> IF pc[h] = "written" THEN file[Tmp].text ELSE mem[h]]

DB == INSTANCE ConfigDB WITH db <- dbBar, open <- openBar, copy <- copyBar

(* Handles of one process see the file-backed store as the abstract        *)
(* database: mcs_new takes a snapshot of the last committed configuration, *)
(* mcs_destroy replaces all of it or, when the temporary file cannot be    *)
(* opened, none of it.                                                     *)
ImplementsConfigDB == DB!Spec

=============================================================================
