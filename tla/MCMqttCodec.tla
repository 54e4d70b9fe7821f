----------------------------- MODULE MCMqttCodec -----------------------------
(***************************************************************************)
(* MqttCodec with a length field in base 4, so that its four bytes are     *)
(* used up by packets of 255 bytes, and strings that are runs of a letter. *)
(* The lengths of the messages put remaining_len on both sides of 4, 16    *)
(* and 64, and on 255.                                                     *)
(***************************************************************************)
EXTENDS MqttCodec

Run(letter, n) == [k \in 1..n |-> letter]

Plain == [dup |-> 0, qos |-> 0, retain |-> 0]
Opt(from, type, rest) == [from |-> from, type |-> type] @@ rest @@ Plain

MsgLens == {0, 1, 9, 10, 11, 12, 57, 58, 59, 60, 249, 250}

Publishes ==
    {Opt(from, Publish, [topic |-> Run(1, t), msg |-> Run(2, n), id |-> id,
                         dup |-> dup, qos |-> qos, retain |-> retain]) :
        from \in {"client", "broker"}, t \in {1, 2}, n \in MsgLens, id \in {1, 9},
        dup \in 0..1, qos \in 0..2, retain \in 0..1}

Connects ==
    {Opt("client", Connect, [flags |-> flags, keep_alive |-> 6,
                             strings |-> [f \in given |-> Run(4, 2)]]) :
        flags \in SUBSET {"will", "user_name", "password"},
        given \in {{"client_id"}, {"client_id", "user_name", "password"},
                   {"client_id", "will_topic", "will_msg", "user_name"}}}

MCPackets ==
    {o \in Publishes : Len(o.topic) + Len(o.msg) <= 251}
    \cup Connects
    \cup {Opt("client", Subscribe, [topics |-> [k \in 1..n |-> Run(3, k)],
                                    qoss |-> Run(q, n), id |-> 1]) :
            n \in 1..5, q \in 0..1}
    \cup {Opt("client", type, [id |-> id]) : type \in {Puback, Pubrec}, id \in {1, 9}}
    \cup {Opt("client", Pingreq, << >>)}
    \cup {Opt("broker", Suback, [id |-> 1, codes |-> codes]) :
            codes \in UNION {[1..n -> {0, 1, 5}] : n \in 1..5}}
    \cup {Opt("broker", type, << >>) : type \in {Connack, Pingresp}}

MCAfter == {<< >>, << 208, 0 >>, Run(7, 3)}
=============================================================================
