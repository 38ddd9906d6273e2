----------------------------- MODULE MCCampaign -----------------------------
(***************************************************************************)
(* Small buffers and files: empty, within and beyond the bounds.           *)
(***************************************************************************)
EXTENDS Campaign

MCCaps == <<0, 2>>

Fault(name, how, output) == [call |-> [entry |-> name, how |-> how], output |-> output]

Parse(cap, prefix, hint) == [cap |-> cap, prefix |-> prefix, last_len |-> hint]

Decode(struct, lens) == [struct |-> struct, trailer |-> 1, lens |-> lens]

(* An output of every entry point, in calls the sweeps make and do not.    *)
HeadFaults ==
  {Fault("request", how, o) : how \in {Parse(2, 3, 2), Parse(0, 2, 0)}, o \in {"path", "slots", "crash"}}
    \cup {Fault("response", how, "status") : how \in {Parse(2, 0, 0), Parse(0, 3, 1)}}
    \cup {Fault("headers", how, "num_headers") : how \in {Parse(0, 3, 0), Parse(2, 2, 1)}}

ChunkedFaults ==
  {Fault("chunked", Decode(Zeroed, lens), o) :
     lens \in {<<2>>, <<1, 0, 2>>, <<0, 2, 1>>, <<1, 2>>}, o \in {"ret", "dec", "crash"}}
    \cup {Fault("chunked", Decode(Dirty[4], <<3>>), "buf")}

MCDefects == HeadFaults \cup ChunkedFaults \cup {Fault("none", [cap |-> 0], "ret")}
=============================================================================
