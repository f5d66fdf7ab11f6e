------------------------------ MODULE MCSession ------------------------------
(* Instances of Session for TLC.                                           *)
EXTENDS Session, TLC

Symmetry == Permutations(Connections) \cup Permutations(Workers)

MCKeys == {<<"k">>}

\* The empty string, and one of ten characters that looks like the beginning
\* of a request and ends in a CR
MCValues == {<<>>, <<"*", "2", "CR", "LF", "$", "1", "CR", "LF", "k", "CR">>}

\* One client and one worker: the stream is cut anywhere, and the client has
\* as many requests under way as the queue has room for.
Pipelined == [clients : {{c} : c \in Connections}, workers : {{w} : w \in Workers}, capacity : {2},
              wholeReads : {FALSE}, unanswered : {2}, requests : {3}]

\* All clients and workers, and a queue for one request: each client waits for
\* the response to its request.
Waiting == [clients : {Connections}, workers : {Workers}, capacity : {1},
            wholeReads : {TRUE}, unanswered : {1}, requests : {2}]

\* The settings in which replies come in order
Careful == Pipelined \cup Waiting

\* One client, who has more requests under way than the queue has room for
Hurried == [clients : {{c} : c \in Connections}, workers : {{w} : w \in Workers}, capacity : {1},
            wholeReads : {TRUE}, unanswered : {3}, requests : {3}]
=============================================================================
