SPECIFICATION Spec
CONSTANTS
  \* Two threads could be told apart if two were started.
  Threads = {1, 2}
  \* A session measures direct I/O, DMA or messages.
  Menus = {{"direct_io", "direct_io_tx_lat", "direct_io_rx_lat", "alloc_ibwin", "free_ibwin"},
           {"dma_tx", "dma_tx_num", "dma_tx_lat"},
           {"dma_rx_lat", "dma_rx_gp", "alloc_ibwin", "free_ibwin"},
           {"message_tx", "message_tx_oh", "message_rx", "reg_scrub"}}
  MaxRun = 2
INVARIANTS StillHeld KillReleases
PROPERTIES CommandsEnd
