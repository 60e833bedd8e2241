--------------------------- MODULE MCConfigurator ---------------------------
(* The register sequences with three operational registers. *)
EXTENDS Configurator

MCOperational == <<"BPF_CONFIG_1", "DEV_CTRL_3", "BURST_PULSE">>
=============================================================================
