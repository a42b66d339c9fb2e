--------------------------- MODULE MCHttpPipeline ---------------------------
(***************************************************************************)
(* Instances of HttpPipeline for TLC: requests to every endpoint, with and *)
(* without an id, of enabled, unknown and unnamed consumers.               *)
(***************************************************************************)
EXTENDS HttpPipeline, TLC

CONSTANTS i1, Partner, Stranger, Spaces, partner, stranger, default,
          r1, r2, r3

MCNormalized == (Partner :> partner) @@ (Stranger :> stranger) @@ (Spaces :> Blank)

MCArrival(path, id, consumer) ==
    [path |-> path, allowed |-> TRUE, valid |-> TRUE, id |-> id, consumer |-> consumer]

MCInbound ==
    {MCArrival("/process", i1, Partner),
     MCArrival("/process", BadId, Spaces),
     MCArrival("/process", BadId, Stranger),
     [MCArrival("/process", i1, Blank) EXCEPT !.valid = FALSE],
     [MCArrival("/process", i1, Blank) EXCEPT !.allowed = FALSE],
     MCArrival("/health/ready", BadId, Blank),
     MCArrival("/health", i1, Blank),
     MCArrival("/metrics", BadId, Blank),
     MCArrival("unmatched", BadId, Blank)}

MCSymmetry == Permutations(Requests)
=============================================================================
