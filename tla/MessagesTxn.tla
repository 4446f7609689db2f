----------------------------- MODULE MessagesTxn -----------------------------
(***************************************************************************)
(* Producers and transactions.                                             *)
(* One table per generated struct; a field lists what size, encode and     *)
(* decode all know of it.                                                  *)
(***************************************************************************)
EXTENDS Schema

InitProducerIdRequest == Struct(2, <<
    OptionSome("transactional_id", Str), Field("transaction_timeout_ms", I32),
    Since(3, Default(-1, Field("producer_id", I64))),
    Since(3, Default(-1, Field("producer_epoch", I16))), Since(6, Field("enable2_pc", Bool)),
    Since(6, Field("keep_prepared_txn", Bool))>>)

InitProducerIdResponse == Struct(2, <<
    Field("throttle_time_ms", I32), Field("error_code", I16),
    Default(-1, Field("producer_id", I64)), Field("producer_epoch", I16),
    Since(6, Default(-1, Field("ongoing_txn_producer_id", I64))),
    Since(6, Default(-1, Field("ongoing_txn_producer_epoch", I16)))>>)

AddPartitionsToTxnRequest_AddPartitionsToTxnTopic == Struct(3, <<
    Field("name", Str), Field("partitions", Arr(I32))>>)

AddPartitionsToTxnRequest_AddPartitionsToTxnTransaction == Struct(3, <<
    Since(4, Field("transactional_id", Str)), Since(4, Field("producer_id", I64)),
    Since(4, Field("producer_epoch", I16)), Since(4, Field("verify_only", Bool)),
    Since(4, Field("topics", Arr(AddPartitionsToTxnRequest_AddPartitionsToTxnTopic)))>>)

AddPartitionsToTxnRequest == Struct(3, <<
    Since(4, Field("transactions", Arr(AddPartitionsToTxnRequest_AddPartitionsToTxnTransaction))),
    Until(3, Field("v3_and_below_transactional_id", Str)),
    Until(3, Field("v3_and_below_producer_id", I64)),
    Until(3, Field("v3_and_below_producer_epoch", I16)),
    Until(3, Field("v3_and_below_topics", Arr(AddPartitionsToTxnRequest_AddPartitionsToTxnTopic)))>>)

AddPartitionsToTxnResponse_AddPartitionsToTxnPartitionResult == Struct(3, <<
    Field("partition_index", I32), Field("partition_error_code", I16)>>)

AddPartitionsToTxnResponse_AddPartitionsToTxnTopicResult == Struct(3, <<
    Field("name", Str),
    Field("results_by_partition", Arr(AddPartitionsToTxnResponse_AddPartitionsToTxnPartitionResult))>>)

AddPartitionsToTxnResponse_AddPartitionsToTxnResult == Struct(3, <<
    Since(4, Field("transactional_id", Str)),
    Since(4, Field("topic_results", Arr(AddPartitionsToTxnResponse_AddPartitionsToTxnTopicResult)))>>)

AddPartitionsToTxnResponse == Struct(3, <<
    Field("throttle_time_ms", I32), Since(4, Field("error_code", I16)),
    Since(4, Field("results_by_transaction", Arr(AddPartitionsToTxnResponse_AddPartitionsToTxnResult))),
    Until(3, Field("results_by_topic_v3_and_below", Arr(AddPartitionsToTxnResponse_AddPartitionsToTxnTopicResult)))>>)

AddOffsetsToTxnRequest == Struct(3, <<
    Field("transactional_id", Str), Field("producer_id", I64), Field("producer_epoch", I16),
    Field("group_id", Str)>>)

AddOffsetsToTxnResponse == Struct(3, <<Field("throttle_time_ms", I32), Field("error_code", I16)>>)

EndTxnRequest == Struct(3, <<
    Field("transactional_id", Str), Field("producer_id", I64), Field("producer_epoch", I16),
    Field("committed", Bool)>>)

EndTxnResponse == Struct(3, <<
    Field("throttle_time_ms", I32), Field("error_code", I16),
    Since(5, Default(-1, Field("producer_id", I64))),
    Since(5, Default(-1, Field("producer_epoch", I16)))>>)

WriteTxnMarkersRequest_WritableTxnMarkerTopic == Struct(0, <<
    Field("name", Str), Field("partition_indexes", Arr(I32))>>)

WriteTxnMarkersRequest_WritableTxnMarker == Struct(0, <<
    Field("producer_id", I64), Field("producer_epoch", I16), Field("transaction_result", Bool),
    Field("topics", Arr(WriteTxnMarkersRequest_WritableTxnMarkerTopic)),
    Field("coordinator_epoch", I32), Since(2, Field("transaction_version", I8))>>)

WriteTxnMarkersRequest == Struct(0, <<
    Field("markers", Arr(WriteTxnMarkersRequest_WritableTxnMarker))>>)

WriteTxnMarkersResponse_WritableTxnMarkerPartitionResult == Struct(0, <<
    Field("partition_index", I32), Field("error_code", I16)>>)

WriteTxnMarkersResponse_WritableTxnMarkerTopicResult == Struct(0, <<
    Field("name", Str),
    Field("partitions", Arr(WriteTxnMarkersResponse_WritableTxnMarkerPartitionResult))>>)

WriteTxnMarkersResponse_WritableTxnMarkerResult == Struct(0, <<
    Field("producer_id", I64),
    Field("topics", Arr(WriteTxnMarkersResponse_WritableTxnMarkerTopicResult))>>)

WriteTxnMarkersResponse == Struct(0, <<
    Field("markers", Arr(WriteTxnMarkersResponse_WritableTxnMarkerResult))>>)

TxnOffsetCommitRequest_TxnOffsetCommitRequestPartition == Struct(3, <<
    Field("partition_index", I32), Field("committed_offset", I64),
    Since(2, Default(-1, Field("committed_leader_epoch", I32))),
    OptionSome("committed_metadata", Str)>>)

TxnOffsetCommitRequest_TxnOffsetCommitRequestTopic == Struct(3, <<
    Field("name", Str),
    Field("partitions", Arr(TxnOffsetCommitRequest_TxnOffsetCommitRequestPartition))>>)

TxnOffsetCommitRequest == Struct(3, <<
    Field("transactional_id", Str), Field("group_id", Str), Field("producer_id", I64),
    Field("producer_epoch", I16), Since(3, Default(-1, Field("generation_id", I32))),
    Since(3, Field("member_id", Str)), Since(3, NullSince(3, Option("group_instance_id", Str))),
    Field("topics", Arr(TxnOffsetCommitRequest_TxnOffsetCommitRequestTopic))>>)

TxnOffsetCommitResponse_TxnOffsetCommitResponsePartition == Struct(3, <<
    Field("partition_index", I32), Field("error_code", I16)>>)

TxnOffsetCommitResponse_TxnOffsetCommitResponseTopic == Struct(3, <<
    Field("name", Str),
    Field("partitions", Arr(TxnOffsetCommitResponse_TxnOffsetCommitResponsePartition))>>)

TxnOffsetCommitResponse == Struct(3, <<
    Field("throttle_time_ms", I32),
    Field("topics", Arr(TxnOffsetCommitResponse_TxnOffsetCommitResponseTopic))>>)

DescribeProducersRequest_TopicRequest == Struct(0, <<
    Field("name", Str), Field("partition_indexes", Arr(I32))>>)

DescribeProducersRequest == Struct(0, <<
    Field("topics", Arr(DescribeProducersRequest_TopicRequest))>>)

DescribeProducersResponse_ProducerState == Struct(0, <<
    Field("producer_id", I64), Field("producer_epoch", I32),
    Default(-1, Field("last_sequence", I32)), Default(-1, Field("last_timestamp", I64)),
    Field("coordinator_epoch", I32), Default(-1, Field("current_txn_start_offset", I64))>>)

DescribeProducersResponse_PartitionResponse == Struct(0, <<
    Field("partition_index", I32), Field("error_code", I16), Option("error_message", Str),
    Field("active_producers", Arr(DescribeProducersResponse_ProducerState))>>)

DescribeProducersResponse_TopicResponse == Struct(0, <<
    Field("name", Str), Field("partitions", Arr(DescribeProducersResponse_PartitionResponse))>>)

DescribeProducersResponse == Struct(0, <<
    Field("throttle_time_ms", I32),
    Field("topics", Arr(DescribeProducersResponse_TopicResponse))>>)

DescribeTransactionsRequest == Struct(0, <<Field("transactional_ids", Arr(Str))>>)

DescribeTransactionsResponse_TopicData == Struct(0, <<
    Field("topic", Str), Field("partitions", Arr(I32))>>)

DescribeTransactionsResponse_TransactionState == Struct(0, <<
    Field("error_code", I16), Field("transactional_id", Str), Field("transaction_state", Str),
    Field("transaction_timeout_ms", I32), Field("transaction_start_time_ms", I64),
    Field("producer_id", I64), Field("producer_epoch", I16),
    Field("topics", Arr(DescribeTransactionsResponse_TopicData))>>)

DescribeTransactionsResponse == Struct(0, <<
    Field("throttle_time_ms", I32),
    Field("transaction_states", Arr(DescribeTransactionsResponse_TransactionState))>>)

ListTransactionsRequest == Struct(0, <<
    Field("state_filters", Arr(Str)), Field("producer_id_filters", Arr(I64)),
    Since(1, Default(-1, Field("duration_filter", I64))),
    Since(2, NullSince(2, Option("transactional_id_pattern", Str)))>>)

ListTransactionsResponse_TransactionState == Struct(0, <<
    Field("transactional_id", Str), Field("producer_id", I64), Field("transaction_state", Str)>>)

ListTransactionsResponse == Struct(0, <<
    Field("throttle_time_ms", I32), Field("error_code", I16),
    Field("unknown_state_filters", Arr(Str)),
    Field("transaction_states", Arr(ListTransactionsResponse_TransactionState))>>)

=============================================================================
