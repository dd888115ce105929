----------------------------- MODULE DurableMap ------------------------------
(***************************************************************************)
(* What the clients of the object store may rely on, and what they may     *)
(* not: a bucket maps keys to contents, and a Get of a key is sent what is *)
(* in store under its content.  A request changes one key, in one step     *)
(* between its admission and its answer; when it has answered that it      *)
(* succeeded, a daemon that has nothing but the server finds the content   *)
(* under the key too.  A content in store is shared by the keys that have  *)
(* it: a Put that fails may cut it short for all of them, and it may be    *)
(* gone for all of them once it was disputed, put and cleared away at the  *)
(* same time.                                                              *)
(***************************************************************************)
CONSTANTS
    Client,
    Bucket,
    Key,
    Content,
    NoObject,     \* no object under the key
    Nobody

VARIABLES
    object,       \* object[b][k]: the content under key k of bucket b
    recovered,    \* recovered[b][k]: the same, of a daemon without a cache
    content,      \* content[x]: what is in store of x, and sent for it
    writer,       \* writer[b][k]: who changed it without an answer, or Nobody
    call,         \* call[c]: the request of client c
    clearing,     \* the contents somebody looks for references to
    disputed,     \* the contents stored for a Put while being cleared
    mixed         \* the buckets changed by two requests before an answer

vars == <<object, recovered, content, writer, call, clearing, disputed, mixed>>

Idle == [pc |-> "idle"]

Init ==
    /\ object = [b \in Bucket |-> [k \in Key |-> NoObject]]
    /\ recovered = object
    /\ content = [x \in Content |-> "absent"]
    /\ writer = [b \in Bucket |-> [k \in Key |-> Nobody]]
    /\ call = [c \in Client |-> Idle]
    /\ clearing = {}
    /\ disputed = {}
    /\ mixed = {}

\* The content is stored for a Put that has not changed its key yet.
Waits(x) == \E c \in Client : call[c].pc = "stored" /\ call[c].content = x

\* Two requests have changed the bucket and wait for their answers.
Mixing(b) ==
    \E c, d \in Client : /\ c # d
                         /\ call[c].pc = "changed" /\ call[c].bucket = b
                         /\ call[d].pc = "changed" /\ call[d].bucket = b

InUse(x) ==
    \/ Waits(x)
    \/ \E b \in Bucket, k \in Key : object[b][k] = x

\* A Put has a content to leave under the key, a Delete none.
Begin(c, b, k, x) ==
    /\ call[c] = Idle
    /\ call' = [call EXCEPT ![c] =
                   [pc |-> "running", bucket |-> b, key |-> k, content |-> x]]
    /\ UNCHANGED <<object, content, writer>>

Store(c) ==
    /\ call[c].pc = "running"
    /\ call[c].content # NoObject
    /\ content' = [content EXCEPT ![call[c].content] = "complete"]
    /\ call' = [call EXCEPT ![c] = [call[c] EXCEPT !.pc = "stored"]]
    /\ UNCHANGED <<object, writer>>

Change(c) ==
    /\ \/ call[c].pc = "stored"
       \/ call[c].pc = "running" /\ call[c].content = NoObject
    /\ LET b == call[c].bucket
           k == call[c].key
       IN  /\ object' = [object EXCEPT ![b] =
                            [object[b] EXCEPT ![k] = call[c].content]]
           /\ writer' = [writer EXCEPT ![b] = [writer[b] EXCEPT ![k] = c]]
    /\ call' = [call EXCEPT ![c] = [call[c] EXCEPT !.pc = "changed"]]
    /\ UNCHANGED content

\* The answer settles the key, unless another request has changed it since.
Succeed(c) ==
    /\ call[c].pc = "changed"
    /\ LET b == call[c].bucket
           k == call[c].key
       IN  writer' = IF writer[b][k] = c
                     THEN [writer EXCEPT ![b] = [writer[b] EXCEPT ![k] = Nobody]]
                     ELSE writer
    /\ call' = [call EXCEPT ![c] = Idle]
    /\ UNCHANGED <<object, content>>

\* A request that fails may have changed the key, which nothing settles then.
Fail(c) ==
    /\ call[c] # Idle
    /\ call' = [call EXCEPT ![c] = Idle]
    /\ UNCHANGED <<object, content, writer>>

\* A Put that fails to store its content may leave a part of it, also of one
\* that other keys have.
FailToStore(c) ==
    /\ call[c].pc = "running"
    /\ call[c].content # NoObject
    /\ \E left \in {"partial", "complete"} :
          content' = [content EXCEPT ![call[c].content] = left]
    /\ call' = [call EXCEPT ![c] = Idle]
    /\ UNCHANGED <<object, writer>>

\* The daemon stops: no request is answered any more.
Stop ==
    /\ call' = [c \in Client |-> Idle]
    /\ UNCHANGED <<object, content, writer>>

\* A content that is cleared away is in use only if it was disputed.
Clear(x) ==
    /\ x \in clearing
    /\ InUse(x) => x \in disputed
    /\ content' = [content EXCEPT ![x] = "absent"]
    /\ UNCHANGED <<object, writer, call>>

\* What is disputed, and mixed, is so for a reason.
NewDisputes == disputed' \ disputed \subseteq {x \in clearing' : Waits(x)'}
NewMixtures == mixed' \ mixed \subseteq {b \in Bucket : Mixing(b)'}

\* The server lags behind, but has what is settled.
Recoverable ==
    \A b \in Bucket, k \in Key :
        b \notin mixed /\ writer[b][k] = Nobody => recovered[b][k] = object[b][k]

Next ==
    /\ \/ UNCHANGED <<object, content, writer, call>>
       \/ Stop
       \/ \E c \in Client :
              \/ Store(c) \/ Change(c) \/ Succeed(c) \/ Fail(c) \/ FailToStore(c)
              \/ \E b \in Bucket, k \in Key, x \in Content \cup {NoObject} :
                    Begin(c, b, k, x)
       \/ \E x \in Content : Clear(x)
    /\ NewDisputes
    /\ NewMixtures
    /\ Recoverable'

Spec == Init /\ [][Next]_vars

=============================================================================
