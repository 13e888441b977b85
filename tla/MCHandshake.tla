---------------------------- MODULE MCHandshake -----------------------------
(***************************************************************************)
(* Handshake with complete CHLOs, inchoate ones, and CHLOs with one error. *)
(***************************************************************************)
EXTENDS Handshake

Hello(missing, offer) == [ok |-> ChloTags \ missing, offer |-> offer]
NoOffer == [t \in {} |-> 0]
Offers == {[MSPC |-> 1, MIDS |-> 3, ICSL |-> 3, SFCW |-> 1, CFCW |-> 3], [MSPC |-> 1, ICSL |-> Malformed]}

MCHellos ==
    {Hello({}, o) : o \in Offers}
    \cup {Hello(m, NoOffer) : m \in {{"key"}, {"cert"}}}
    \cup {Hello(m \cup {"PUBS", "key"}, NoOffer) : m \in {{}, {"cert"}, {"SCID", "STK"}, {"SCID", "STK", "SNI"}}}
MCLimit == [t \in Negotiable |-> 2]
MCDefault == [t \in ParamTags |-> 2]
=============================================================================
