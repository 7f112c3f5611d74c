-------------------------- MODULE MCArrayQueueBench --------------------------
EXTENDS ArrayQueueBench
MCData == 0..(s_queue_item_num * Cardinality(Producers))
MCEnqueues == s_queue_item_num * Cardinality(Producers) + 1   \* one more than is asked for
MCThreads == Producers \cup Consumers
=============================================================================
