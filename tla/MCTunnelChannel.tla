-------------------------- MODULE MCTunnelChannel --------------------------
\* TunnelChannel with the values of TunnelLife.cfg.
EXTENDS TunnelChannel
=============================================================================
