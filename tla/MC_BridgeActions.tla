--------------------------- MODULE MC_BridgeActions ---------------------------
EXTENDS BridgeActions

\* Three actions over two block heights and two epochs, so that actions
\* share a height, an epoch, or carry none.
MCIds == {1, 2, 3}
MCHeights == {1, 2}
MCEpochs == {1, 2}
MCTypes == {"withdraw", "stake"}

=============================================================================
