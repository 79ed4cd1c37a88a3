---------------------------- MODULE ContentStore ----------------------------
(***************************************************************************)
(* What a storage node promises its clients, whatever its files do: a set  *)
(* of shards that is read and changed atomically, in which a shard the     *)
(* node has acknowledged survives a power loss until somebody deletes it.  *)
(* Shards stored and not yet acknowledged may or may not survive one, and  *)
(* a shard deleted just before it may come back.  Nothing of this holds    *)
(* for a shaky shard: one put in place before all its bytes were written,  *)
(* or acknowledged although its name could not be secured.  It is shaky    *)
(* until it is stored again with neither fault, or until a power loss      *)
(* settles what is left of it.                                             *)
(***************************************************************************)
CONSTANTS
    Clients,
    Items,
    Nothing    \* not an item

VARIABLES
    objs,     \* the items a reader finds
    firm,     \* the items a power loss cannot take away
    ghosts,   \* deleted items a power loss may bring back
    shaky,    \* the items of which nothing is promised
    told      \* the item each client was last told is stored

storeVars == <<objs, firm, ghosts, shaky, told>>

Init ==
    /\ objs = {} /\ firm = {} /\ ghosts = {} /\ shaky = {}
    /\ told = [c \in Clients |-> Nothing]

\* A client starts a new request.
Ask(c) ==
    /\ told' = [told EXCEPT ![c] = Nothing]
    /\ UNCHANGED <<objs, firm, ghosts, shaky>>

Put(s) ==
    /\ objs' = objs \cup {s}
    /\ ghosts' = ghosts \ {s}
    /\ UNCHANGED <<firm, shaky, told>>

\* s is put in place before all its bytes are written.
PutHastily(s) ==
    /\ objs' = objs \cup {s}
    /\ ghosts' = ghosts \ {s}
    /\ shaky' = shaky \cup {s}
    /\ firm' = firm \ {s}
    /\ UNCHANGED told

\* The answer to the client that stored s.  If nobody deleted it since, it is
\* now firm, unless it was shaky and still is: somebody put it in place hastily.
Acknowledge(c, s) ==
    /\ told' = [told EXCEPT ![c] = s]
    /\ \E still \in SUBSET (shaky \cap {s}) :
          /\ shaky' = (shaky \ {s}) \cup still
          /\ firm' = firm \cup (({s} \cap objs) \ still)
    /\ ghosts' = ghosts \ {s}
    /\ UNCHANGED objs

\* The same answer after a fault in securing the name.
AcknowledgeUnsecured(c, s) ==
    /\ told' = [told EXCEPT ![c] = s]
    /\ shaky' = shaky \cup {s}
    /\ firm' = firm \ {s}
    /\ UNCHANGED <<objs, ghosts>>

Remove(s) ==
    /\ s \in objs
    /\ objs' = objs \ {s}
    /\ firm' = firm \ {s}
    /\ ghosts' = ghosts \cup {s}
    /\ UNCHANGED <<shaky, told>>

PowerLoss ==
    \E S \in SUBSET (objs \cup ghosts) :
        /\ firm \subseteq S
        /\ objs' = S /\ ghosts' = {}
        /\ shaky' \in SUBSET (shaky \cap S)
        /\ firm' = S \ shaky'
        /\ told' = [c \in Clients |-> Nothing]

Next ==
    \/ \E c \in Clients : Ask(c)
    \/ \E s \in Items : Put(s) \/ PutHastily(s) \/ Remove(s)
    \/ \E s \in Items, c \in Clients : Acknowledge(c, s) \/ AcknowledgeUnsecured(c, s)
    \/ PowerLoss

Spec == Init /\ [][Next]_storeVars

=============================================================================
