--------------------------- MODULE InputMaterializer ---------------------------
(***************************************************************************)
(* app/worker/materializer.py: the file one run of the workflows reads.    *)
(* Local storage is read in place; an object of a remote backend is copied *)
(* to a workspace that the materializer owns until cleanup removes it.     *)
(***************************************************************************)
EXTENDS Integers

CONSTANTS
    Media,  \* contents an input file may have
    Jobs,   \* what a job asks for and what may fail; one is fixed in Init
    None

ASSUME MediaAssumption == None \notin Media

VARIABLES
    job,        \* the job of this behaviour
    stored,     \* the content under its input_file_key
    workspace,  \* the materializer's directory
    owned       \* whether it is in _owned_workspaces

inputVars == <<stored, workspace, owned>>

\* A temporary directory and the media file in it.
Directory == [exists : BOOLEAN, file : Media \cup {None}]
NoDirectory == [exists |-> FALSE, file |-> None]
EmptyDirectory == [exists |-> TRUE, file |-> None]

Fault(f) == f \in job.faults
InPlace == job.backend = "local"

InputInit ==
    /\ job \in Jobs
    /\ stored \in Media
    /\ workspace = NoDirectory
    /\ owned = FALSE

\* The file behind ResolvedInputFile.local_path at this moment.
SourceFile == IF InPlace THEN stored ELSE workspace.file

\* _create_workspace
CreateWorkspace ==
    /\ workspace' = EmptyDirectory
    /\ owned' = TRUE

Download == workspace' = [workspace EXCEPT !.file = stored] /\ UNCHANGED owned

DeleteWorkspace == workspace' = NoDirectory /\ owned' = FALSE

\* rmtree fails, or is interrupted, when some files are already gone.
LeaveWorkspace ==
    /\ workspace' \in {workspace, EmptyDirectory}
    /\ UNCHANGED owned
=============================================================================
