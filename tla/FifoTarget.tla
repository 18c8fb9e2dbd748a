----------------------------- MODULE FifoTarget -----------------------------
(***************************************************************************)
(* What a writer promises to the pipeline for one target instance: the     *)
(* entries handed to Write are executed by the instance in that order,     *)
(* each at most once and each in its own database, and the OnWritten       *)
(* callbacks run in that order, each after its command was executed.  The  *)
(* task process may die at any moment; nothing more happens then.          *)
(*                                                                         *)
(* RedisWriter (internal/writer/redis_standalone_writer.go) is shown to    *)
(* implement this specification; SyncPipeline uses it for every shard.     *)
(***************************************************************************)
EXTENDS Integers, Sequences

CONSTANTS Entries   \* what can be handed to Write

VARIABLES sent,     \* the entries handed to Write
          ran,      \* how many of them the target has executed
          answered, \* how many OnWritten callbacks have run
          failed    \* the process is gone

fvars == <<sent, ran, answered, failed>>

FInit == sent = <<>> /\ ran = 0 /\ answered = 0 /\ failed = FALSE

FWrite(e) ==
    /\ ~ failed
    /\ sent' = Append(sent, e)
    /\ UNCHANGED <<ran, answered, failed>>

\* The instance belongs to another process: it finishes what it has received even
\* when the task process is gone.
FExecute ==
    /\ ran < Len(sent)
    /\ ran' = ran + 1
    /\ UNCHANGED <<sent, answered, failed>>

FAnswer ==
    /\ ~ failed
    /\ answered < ran
    /\ answered' = answered + 1
    /\ UNCHANGED <<sent, ran, failed>>

FFail ==
    /\ ~ failed
    /\ failed' = TRUE
    /\ UNCHANGED <<sent, ran, answered>>

FNext == (\E e \in Entries : FWrite(e)) \/ FExecute \/ FAnswer \/ FFail

FSpec == FInit /\ [][FNext]_fvars
=============================================================================
