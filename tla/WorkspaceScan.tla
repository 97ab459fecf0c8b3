---------------------------- MODULE WorkspaceScan ----------------------------
(* commands/workspace.rs: the members of a Cargo workspace, each contract      *)
(* scanned together with the files of every shared library.                    *)
EXTENDS Naturals, Sequences, SequencesExt, FiniteSets, FiniteSetsExt

\* A member's manifest declares a cdylib, declares none, or does not parse.
Member(manifest, files) == [manifest |-> manifest, files |-> files]

classify_member(m) ==
  IF m.manifest = "cdylib" THEN "Contract"
  ELSE IF m.manifest = "plain" THEN "SharedLib" ELSE "Unknown"

Contracts(ws) == {i \in DOMAIN ws : classify_member(ws[i]) = "Contract"}
shared_lib_files(ws) == UNION {ws[i].files : i \in (DOMAIN ws) \ Contracts(ws)}

\* Sorted and deduplicated, so that a file is scanned once for a contract.
rs_files(ws, i) == ws[i].files \union shared_lib_files(ws)

\* A file: what its analysis finds, and whether it is readable and in time.
DefaultScan == [found |-> 0, timed_out |-> FALSE]
ScanOf(f) == [found |-> f.finds, timed_out |-> FALSE]
\* run_with_timeout gives None, and unwrap_or_default what a file without
\* findings gives.
WorkspaceResult(f) ==
  IF ~f.readable \/ ~f.inTime THEN DefaultScan ELSE ScanOf(f)

count_findings(r) == r.found + (IF r.timed_out THEN 1 ELSE 0)

ContractCount(ws, i) ==
  MapThenSumSet(LAMBDA f : count_findings(WorkspaceResult(f)), rs_files(ws, i))
grand_total(ws) == MapThenSumSet(LAMBDA i : ContractCount(ws, i), Contracts(ws))

\* load_config_for: the settings of the nearest directory upwards whose file
\* reads and parses; 0 is the default. dirs lists them from the member up.
load_config_for(dirs) ==
  LET usable == {k \in DOMAIN dirs : dirs[k] = "valid"} IN
  IF usable = {} THEN 0 ELSE Min(usable)
=============================================================================
