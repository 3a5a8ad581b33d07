---------------------------- MODULE MCMessagingHub ----------------------------
EXTENDS MessagingHub, TLC
CONSTANTS h1, d1, d2, x1, x2, v1, v2
MCChannelOf == (d1 :> h1 @@ d2 :> h1)
MCThreadOf == (x1 :> v1 @@ x2 :> None)

\* nothing has happened yet, except that one side is at its bound already: the
\* events have all arrived, or all deliveries but one have been sent
MCInit ==
    \E arrived \in {0, MaxArrivals} :
        LET st == [d \in Deliveries |-> IF arrived = 0 /\ d # d1 THEN "sent" ELSE "none"] IN
        /\ mem = [channels |-> <<>>, state |-> [h \in Channels |-> "none"], subs |-> {},
                  queue |-> {}, backingOff |-> {},
                  status |-> st, attempts |-> [d \in Deliveries |-> 0]]
        /\ disk = mem
        /\ server = "up" /\ pass = "idle" /\ todo = {} /\ sending = None /\ testing = {}
        /\ stored = {} /\ dispatched = [s \in Sources |-> 0] /\ acked = {}
        /\ arrivals = [x \in Events |-> arrived]
        /\ accepted = {} /\ sends = [d \in Deliveries |-> 0]
        /\ kills = 0 /\ faults = 0

MCSpec == MCInit /\ [][Next]_vars /\ Fairness
=============================================================================
