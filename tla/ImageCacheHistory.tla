-------------------------- MODULE ImageCacheHistory ---------------------------
(***************************************************************************)
(* ImageCache with a record of what its operations leave undone.           *)
(* reindex_tag clears the metadata of a version in one transaction and     *)
(* extracts it in another, which may fail and is not repeated.  A blob is  *)
(* written before its row, and removed after it: an operation that stops   *)
(* in between leaves a blob that no later operation looks for, and so does *)
(* the removal of a local component, on purpose.                           *)
(***************************************************************************)
EXTENDS ImageCache

VARIABLES
    unindexed,  \* manifests whose metadata a reindex cleared and nobody has restored
    left        \* layers whose blob an operation has left behind

history == <<unindexed, left>>

ReindexClears(m) ==
    \E p \in Proc : Clear(p) /\ proc[p].op = "reindex" /\ proc[p].man = m

\* Between the blob and its row, or between the row and its blob; and
\* delete_preserving_blobs.
LeavesBehind(l) ==
    \E p \in Proc :
       \/ Abort(p) /\ At(p, "row") /\ LayerOf[proc[p].man] = l
       \/ Abort(p) /\ At(p, "reclaim") /\ l \in proc[p].doomed
       \/ CommitDelete(p) /\ proc[p].op # "delete" /\ proc[p].live /\ LayerOf[proc[p].man] = l

RecordingInit == Init /\ unindexed = {} /\ left = {}

RecordingNext ==
    /\ Next
    /\ unindexed' = (unindexed \union {m \in Manifest : ReindexClears(m)}) \ wit'
    /\ left' = (left \union {l \in Layer : LeavesBehind(l)}) \intersect blob'

RecordingSpec == RecordingInit /\ [][RecordingNext]_<<vars, history>>

\* The comment on execute_pull_task: retried pulls repair the stored version.
\* A retry that finds the layer stored only succeeds with its metadata in place,
\* wherever the attempt before it stopped; only a reindex of the same version
\* that overlaps the retry can leave it without.
RetryRestoresMetadata ==
    [][\A p \in Proc :
         (Publish(p) /\ proc[p].repair /\ proc[p].stored)
         => proc[p].man \in wit \union unindexed]_<<vars, history>>

\* The cache holds nothing for ever: a blob without a layer row is one that an
\* operation is about to use or to remove, or that an operation has left behind.
\* A deletion that finishes frees every layer that nobody else had at the time,
\* although packages share layers and pulls of them come and go.
UnusedBlobsAreExplained ==
    \A l \in blob \ left :
        \/ \E m \in layer : LayerOf[m] = l
        \/ \E p \in Proc :
              \/ At(p, "row") /\ LayerOf[proc[p].man] = l
              \/ At(p, "reclaim") /\ l \in proc[p].doomed

===============================================================================
