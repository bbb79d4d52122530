----------------------------- MODULE MCNASWire -----------------------------
(* Identities with MNCs of two and three digits and MSINs of odd and even  *)
(* length; elements whose values look like tags or lengths.                *)
EXTENDS NASWire

Element(name, octets, says) == [name |-> name, octets |-> octets, says |-> says]

MCConfig == [mcc |-> <<0, 0, 1>>, mnc |-> <<0, 1>>, sst |-> 1, sd |-> <<1, 2, 3>>,
             dnn |-> <<<<105, 110, 116>>>>]
MCTimers == {2, 62, 63, 930, 931, 1860, 1861, 3240, 19199}
MCAllowed == {<<>>, <<[sst |-> 1, sd |-> <<1, 2, 3>>], [sst |-> 2, sd |-> <<>>]>>}

Capabilities(raw, ea, ia) == [ea |-> ea, ia |-> ia, raw |-> raw]

Registration(id, type, value) ==
    [octets |-> <<126, 0, 65, 65, 0, Len(id)>> \o id,
     says |-> [ok |-> TRUE, type |-> 1, ksi |-> 4, id |-> [type |-> type, value |-> value],
               cap |-> Absent, nssai |-> Absent]]

Session(id, pti, inner, type) ==
    [octets |-> <<126, 0, 103, 1, 0, 6 + Len(inner), 46, id, pti, 193, 255, 255>> \o inner,
     says |-> [id |-> 0, innerId |-> id, pti |-> pti, type |-> type, dnn |-> MCConfig.dnn,
               sst |-> MCConfig.sst, sd |-> MCConfig.sd]]

MCStarts ==
    [registration |->
        {Registration(<<1, 0, 241, 16, 0, 0, 0, 0, 33, 243>>, 1, <<0, 0, 1, 0, 1, 1, 2, 3>>),
         Registration(<<1, 19, 0, 20, 0, 0, 0, 0, 33>>, 1, <<3, 1, 0, 4, 1, 0, 1, 2>>),
         Registration(<<242, 0, 241, 16, 1, 0, 64, 0, 0, 0, 1>>, 2, <<0, 241, 16, 1, 0>>),
         Registration(<<3>>, 3, <<-1, 3>>)},
     authentication |-> {[octets |-> <<126, 0, 87>>, says |-> [res |-> Absent]]},
     security |-> {[octets |-> <<126, 0, 94>>, says |-> [imeisv |-> Absent]]},
     session |-> {Session(5, 1, <<>>, 1), Session(18, 2, <<161, 147>>, 3),
                  Session(1, 37, <<40, 1, 147, 146>>, 2)}]

MCElements ==
    [registration |->
        {Element("cap", <<46, 2, 224, 160>>, [cap |-> Capabilities(<<224, 160>>, {0, 1, 2}, {0, 2})]),
         Element("cap", <<46, 4, 240, 112, 21, 1>>,
                 [cap |-> Capabilities(<<240, 112, 21, 1>>, {0, 1, 2, 3}, {1, 2, 3})]),
         Element("nssai", <<21, 7, 1, 1, 4, 2, 46, 2, 3>>,
                 [nssai |-> <<[sst |-> 1, sd |-> Absent], [sst |-> 2, sd |-> <<46, 2, 3>>]>>]),
         Element("capability", <<16, 3, 46, 2, 21>>, <<>>),
         Element("empty", <<82, 0>>, <<>>)},
     authentication |->
        {Element("res", <<45, 4, 120, 0, 45, 1>>, [res |-> <<120, 0, 45, 1>>]),
         Element("eap", <<120, 0, 3, 45, 1, 9>>, <<>>)},
     security |->
        {Element("imeisv", <<119, 4, 5, 33, 67, 245>>, [imeisv |-> <<1, 2, 3, 4, 5>>]),
         Element("container", <<113, 2, 119, 1>>, <<>>)},
     session |->
        {Element("id", <<18, 5>>, [id |-> 5]),
         Element("old", <<89, 18>>, <<>>),
         Element("request", <<129>>, <<>>),
         Element("snssai", <<34, 1, 2>>, [sst |-> 2]),
         Element("snssai", <<34, 4, 2, 37, 1, 0>>, [sst |-> 2, sd |-> <<37, 1, 0>>]),
         Element("dnn", <<37, 4, 1, 34, 1, 18>>, [dnn |-> <<<<34>>, <<18>>>>]),
         Element("information", <<36, 3, 18, 9, 37>>, <<>>)}]
=============================================================================
