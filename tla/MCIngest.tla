------------------------------ MODULE MCIngest ------------------------------
(***************************************************************************)
(* Ingest on small instances.  Topic A copies to B, B to A and C: a cycle  *)
(* and a chain.  C is not persistent.  Both requests publish an event with  *)
(* the same key, then one of their own: a notification, and the completion *)
(* of the task the first events have started.                              *)
(***************************************************************************)
EXTENDS Ingest, TLC

CONSTANTS r1, r2, i1, i2, topicA, topicB, topicC, k1

Event(key, topic, kind, status) ==
    [key |-> key, topic |-> topic, kind |-> kind, status |-> status]

Row(persist, targets) == [persist |-> persist, targets |-> targets]

MCHome == r1 :> i1 @@ r2 :> i2

MCBatch == r1 :> <<Event(k1, topicA, "task", "started"),
                   Event(NoKey, topicC, "notification", "created")>>
        @@ r2 :> <<Event(k1, topicA, "task", "started"),
                   Event(NoKey, topicC, "task", "completed")>>

MCRows == topicA :> Row(TRUE, <<topicB>>)
       @@ topicB :> Row(TRUE, <<topicC, topicA>>)
       @@ topicC :> Row(FALSE, <<>>)

MCEdits == {[topic |-> topicB, row |-> Row(TRUE, <<>>)]}
=============================================================================
