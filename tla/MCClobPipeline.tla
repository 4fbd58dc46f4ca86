---------------------------- MODULE MCClobPipeline ----------------------------
(* Markets are numbered in the order in which discovery finds them.        *)
EXTENDS ClobPipeline

CONSTANTS tf5, tf15

\* All markets belong to one timeframe.
MCOneTimeframe == [m \in Markets |-> tf5]

=============================================================================
