---------------------------- MODULE MessagesData ----------------------------
(***************************************************************************)
(* Reading and writing the log, and finding it: Produce, Fetch, ListOffsets,*)
(* Metadata and the connection handshake.                                  *)
(* One table per generated struct; a field lists what size, encode and     *)
(* decode all know of it.                                                  *)
(***************************************************************************)
EXTENDS Schema

ProduceRequest_PartitionProduceData == Struct(9, <<Field("index", I32), Option("records", Bytes)>>)

ProduceRequest_TopicProduceData == Struct(9, <<
    Until(12, Field("name", Str)), Since(13, Field("topic_id", Uuid)),
    Field("partition_data", Arr(ProduceRequest_PartitionProduceData))>>)

ProduceRequest == Struct(9, <<
    Option("transactional_id", Str), Field("acks", I16), Field("timeout_ms", I32),
    Field("topic_data", Arr(ProduceRequest_TopicProduceData))>>)

ProduceResponse_BatchIndexAndErrorMessage == Struct(9, <<
    Since(8, Field("batch_index", I32)),
    Since(8, NullSince(8, Option("batch_index_error_message", Str)))>>)

ProduceResponse_LeaderIdAndEpoch == Struct(9, <<
    Since(10, Default(-1, Field("leader_id", I32))),
    Since(10, Default(-1, Field("leader_epoch", I32)))>>)

ProduceResponse_PartitionProduceResponse == Struct(9, <<
    Field("index", I32), Field("error_code", I16), Field("base_offset", I64),
    Default(-1, Field("log_append_time_ms", I64)),
    Since(5, Default(-1, Field("log_start_offset", I64))),
    Since(8, Field("record_errors", Arr(ProduceResponse_BatchIndexAndErrorMessage))),
    Since(8, NullSince(8, Option("error_message", Str))),
    Tagged(0, Since(10, Field("current_leader", ProduceResponse_LeaderIdAndEpoch)))>>)

ProduceResponse_TopicProduceResponse == Struct(9, <<
    Until(12, Field("name", Str)), Since(13, Field("topic_id", Uuid)),
    Field("partition_responses", Arr(ProduceResponse_PartitionProduceResponse))>>)

ProduceResponse_NodeEndpoint == Struct(9, <<
    Since(10, Field("node_id", I32)), Since(10, Field("host", Str)), Since(10, Field("port", I32)),
    Since(10, NullSince(10, Option("rack", Str)))>>)

ProduceResponse == Struct(9, <<
    Field("responses", Arr(ProduceResponse_TopicProduceResponse)), Field("throttle_time_ms", I32),
    Tagged(0, Since(10, Field("node_endpoints", Arr(ProduceResponse_NodeEndpoint))))>>)

FetchRequest_ReplicaState == Struct(12, <<
    Since(15, Default(-1, Field("replica_id", I32))),
    Since(15, Default(-1, Field("replica_epoch", I64)))>>)

FetchRequest_FetchPartition == Struct(12, <<
    Field("partition", I32), Since(9, Default(-1, Field("current_leader_epoch", I32))),
    Field("fetch_offset", I64), Since(12, Default(-1, Field("last_fetched_epoch", I32))),
    Since(5, Default(-1, Field("log_start_offset", I64))), Field("partition_max_bytes", I32),
    Tagged(0, Since(17, Field("replica_directory_id", Uuid))),
    Tagged(1, Since(18, Default(MaxI64, Field("high_watermark", I64))))>>)

FetchRequest_FetchTopic == Struct(12, <<
    Until(12, Field("topic", Str)), Since(13, Field("topic_id", Uuid)),
    Field("partitions", Arr(FetchRequest_FetchPartition))>>)

FetchRequest_ForgottenTopic == Struct(12, <<
    Until(12, Since(7, Field("topic", Str))), Since(13, Field("topic_id", Uuid)),
    Since(7, Field("partitions", Arr(I32)))>>)

FetchRequest == Struct(12, <<
    Tagged(0, Since(12, NullSince(12, Option("cluster_id", Str)))),
    Until(14, Default(-1, Field("replica_id", I32))),
    Tagged(1, Since(15, Field("replica_state", FetchRequest_ReplicaState))),
    Field("max_wait_ms", I32), Field("min_bytes", I32),
    Default(2147483647, Field("max_bytes", I32)), Field("isolation_level", I8),
    Since(7, Field("session_id", I32)), Since(7, Default(-1, Field("session_epoch", I32))),
    Field("topics", Arr(FetchRequest_FetchTopic)),
    Since(7, Field("forgotten_topics_data", Arr(FetchRequest_ForgottenTopic))),
    Since(11, Field("rack_id", Str))>>)

FetchResponse_EpochEndOffset == Struct(12, <<
    Since(12, Default(-1, Field("epoch", I32))),
    Since(12, Default(-1, Field("end_offset", I64)))>>)

FetchResponse_LeaderIdAndEpoch == Struct(12, <<
    Since(12, Default(-1, Field("leader_id", I32))),
    Since(12, Default(-1, Field("leader_epoch", I32)))>>)

FetchResponse_SnapshotId == Struct(12, <<
    Default(-1, Field("end_offset", I64)), Default(-1, Field("epoch", I32))>>)

FetchResponse_AbortedTransaction == Struct(12, <<
    Field("producer_id", I64), Field("first_offset", I64)>>)

FetchResponse_PartitionData == Struct(12, <<
    Field("partition_index", I32), Field("error_code", I16), Field("high_watermark", I64),
    Default(-1, Field("last_stable_offset", I64)),
    Since(5, Default(-1, Field("log_start_offset", I64))),
    Tagged(0, Since(12, Field("diverging_epoch", FetchResponse_EpochEndOffset))),
    Tagged(1, Since(12, Field("current_leader", FetchResponse_LeaderIdAndEpoch))),
    Tagged(2, Since(12, Field("snapshot_id", FetchResponse_SnapshotId))),
    OptionSome("aborted_transactions", Arr(FetchResponse_AbortedTransaction)),
    Since(11, Default(-1, Field("preferred_read_replica", I32))), Option("records", Bytes)>>)

FetchResponse_FetchableTopicResponse == Struct(12, <<
    Until(12, Field("topic", Str)), Since(13, Field("topic_id", Uuid)),
    Field("partitions", Arr(FetchResponse_PartitionData))>>)

FetchResponse_NodeEndpoint == Struct(12, <<
    Since(16, Field("node_id", I32)), Since(16, Field("host", Str)), Since(16, Field("port", I32)),
    Since(16, NullSince(16, Option("rack", Str)))>>)

FetchResponse == Struct(12, <<
    Field("throttle_time_ms", I32), Since(7, Field("error_code", I16)),
    Since(7, Field("session_id", I32)),
    Field("responses", Arr(FetchResponse_FetchableTopicResponse)),
    Tagged(0, Since(16, Field("node_endpoints", Arr(FetchResponse_NodeEndpoint))))>>)

ListOffsetsRequest_ListOffsetsPartition == Struct(6, <<
    Field("partition_index", I32), Since(4, Default(-1, Field("current_leader_epoch", I32))),
    Field("timestamp", I64)>>)

ListOffsetsRequest_ListOffsetsTopic == Struct(6, <<
    Field("name", Str), Field("partitions", Arr(ListOffsetsRequest_ListOffsetsPartition))>>)

ListOffsetsRequest == Struct(6, <<
    Field("replica_id", I32), Since(2, Field("isolation_level", I8)),
    Field("topics", Arr(ListOffsetsRequest_ListOffsetsTopic)),
    Since(10, Field("timeout_ms", I32))>>)

ListOffsetsResponse_ListOffsetsPartitionResponse == Struct(6, <<
    Field("partition_index", I32), Field("error_code", I16), Default(-1, Field("timestamp", I64)),
    Default(-1, Field("offset", I64)), Since(4, Default(-1, Field("leader_epoch", I32)))>>)

ListOffsetsResponse_ListOffsetsTopicResponse == Struct(6, <<
    Field("name", Str),
    Field("partitions", Arr(ListOffsetsResponse_ListOffsetsPartitionResponse))>>)

ListOffsetsResponse == Struct(6, <<
    Since(2, Field("throttle_time_ms", I32)),
    Field("topics", Arr(ListOffsetsResponse_ListOffsetsTopicResponse))>>)

MetadataRequest_MetadataRequestTopic == Struct(9, <<
    Since(10, Field("topic_id", Uuid)), NullSince(10, OptionSome("name", Str))>>)

MetadataRequest == Struct(9, <<
    NullSince(1, OptionSome("topics", Arr(MetadataRequest_MetadataRequestTopic))),
    Since(4, Default(1, Field("allow_auto_topic_creation", Bool))),
    Until(10, Since(8, Field("include_cluster_authorized_operations", Bool))),
    Since(8, Field("include_topic_authorized_operations", Bool))>>)

MetadataResponse_MetadataResponseBroker == Struct(9, <<
    Field("node_id", I32), Field("host", Str), Field("port", I32),
    Since(1, NullSince(1, Option("rack", Str)))>>)

MetadataResponse_MetadataResponsePartition == Struct(9, <<
    Field("error_code", I16), Field("partition_index", I32), Field("leader_id", I32),
    Since(7, Default(-1, Field("leader_epoch", I32))), Field("replica_nodes", Arr(I32)),
    Field("isr_nodes", Arr(I32)), Since(5, Field("offline_replicas", Arr(I32)))>>)

MetadataResponse_MetadataResponseTopic == Struct(9, <<
    Field("error_code", I16), NullSince(12, OptionSome("name", Str)),
    Since(10, Field("topic_id", Uuid)), Since(1, Field("is_internal", Bool)),
    Field("partitions", Arr(MetadataResponse_MetadataResponsePartition)),
    Since(8, Default(MinI32, Field("topic_authorized_operations", I32)))>>)

MetadataResponse == Struct(9, <<
    Since(3, Field("throttle_time_ms", I32)),
    Field("brokers", Arr(MetadataResponse_MetadataResponseBroker)),
    Since(2, NullSince(2, Option("cluster_id", Str))),
    Since(1, Default(-1, Field("controller_id", I32))),
    Field("topics", Arr(MetadataResponse_MetadataResponseTopic)),
    Until(10, Since(8, Default(MinI32, Field("cluster_authorized_operations", I32)))),
    Since(13, Field("error_code", I16))>>)

OffsetForLeaderEpochRequest_OffsetForLeaderPartition == Struct(4, <<
    Field("partition", I32), Default(-1, Field("current_leader_epoch", I32)),
    Field("leader_epoch", I32)>>)

OffsetForLeaderEpochRequest_OffsetForLeaderTopic == Struct(4, <<
    Field("topic", Str),
    Field("partitions", Arr(OffsetForLeaderEpochRequest_OffsetForLeaderPartition))>>)

OffsetForLeaderEpochRequest == Struct(4, <<
    Since(3, Default(-2, Field("replica_id", I32))),
    Field("topics", Arr(OffsetForLeaderEpochRequest_OffsetForLeaderTopic))>>)

OffsetForLeaderEpochResponse_EpochEndOffset == Struct(4, <<
    Field("error_code", I16), Field("partition", I32), Default(-1, Field("leader_epoch", I32)),
    Default(-1, Field("end_offset", I64))>>)

OffsetForLeaderEpochResponse_OffsetForLeaderTopicResult == Struct(4, <<
    Field("topic", Str), Field("partitions", Arr(OffsetForLeaderEpochResponse_EpochEndOffset))>>)

OffsetForLeaderEpochResponse == Struct(4, <<
    Field("throttle_time_ms", I32),
    Field("topics", Arr(OffsetForLeaderEpochResponse_OffsetForLeaderTopicResult))>>)

DeleteRecordsRequest_DeleteRecordsPartition == Struct(2, <<
    Field("partition_index", I32), Field("offset", I64)>>)

DeleteRecordsRequest_DeleteRecordsTopic == Struct(2, <<
    Field("name", Str), Field("partitions", Arr(DeleteRecordsRequest_DeleteRecordsPartition))>>)

DeleteRecordsRequest == Struct(2, <<
    Field("topics", Arr(DeleteRecordsRequest_DeleteRecordsTopic)), Field("timeout_ms", I32)>>)

DeleteRecordsResponse_DeleteRecordsPartitionResult == Struct(2, <<
    Field("partition_index", I32), Field("low_watermark", I64), Field("error_code", I16)>>)

DeleteRecordsResponse_DeleteRecordsTopicResult == Struct(2, <<
    Field("name", Str),
    Field("partitions", Arr(DeleteRecordsResponse_DeleteRecordsPartitionResult))>>)

DeleteRecordsResponse == Struct(2, <<
    Field("throttle_time_ms", I32),
    Field("topics", Arr(DeleteRecordsResponse_DeleteRecordsTopicResult))>>)

FindCoordinatorRequest == Struct(3, <<
    Until(3, Field("key", Str)), Since(1, Field("key_type", I8)),
    Since(4, Field("coordinator_keys", Arr(Str)))>>)

FindCoordinatorResponse_Coordinator == Struct(3, <<
    Since(4, Field("key", Str)), Since(4, Field("node_id", I32)), Since(4, Field("host", Str)),
    Since(4, Field("port", I32)), Since(4, Field("error_code", I16)),
    Since(4, NullSince(4, OptionSome("error_message", Str)))>>)

FindCoordinatorResponse == Struct(3, <<
    Since(1, Field("throttle_time_ms", I32)), Until(3, Field("error_code", I16)),
    Until(3, Since(1, NullUntil(3, NullSince(1, OptionSome("error_message", Str))))),
    Until(3, Field("node_id", I32)), Until(3, Field("host", Str)), Until(3, Field("port", I32)),
    Since(4, Field("coordinators", Arr(FindCoordinatorResponse_Coordinator)))>>)

DescribeClusterRequest == Struct(0, <<
    Field("include_cluster_authorized_operations", Bool),
    Since(1, Default(1, Field("endpoint_type", I8))),
    Since(2, Field("include_fenced_brokers", Bool))>>)

DescribeClusterResponse_DescribeClusterBroker == Struct(0, <<
    Field("broker_id", I32), Field("host", Str), Field("port", I32), Option("rack", Str),
    Since(2, Field("is_fenced", Bool))>>)

DescribeClusterResponse == Struct(0, <<
    Field("throttle_time_ms", I32), Field("error_code", I16), Option("error_message", Str),
    Since(1, Default(1, Field("endpoint_type", I8))), Field("cluster_id", Str),
    Default(-1, Field("controller_id", I32)),
    Field("brokers", Arr(DescribeClusterResponse_DescribeClusterBroker)),
    Default(MinI32, Field("cluster_authorized_operations", I32))>>)

DescribeTopicPartitionsRequest_TopicRequest == Struct(0, <<Field("name", Str)>>)

DescribeTopicPartitionsRequest_Cursor == Struct(0, <<
    Field("topic_name", Str), Field("partition_index", I32)>>)

DescribeTopicPartitionsRequest == Struct(0, <<
    Field("topics", Arr(DescribeTopicPartitionsRequest_TopicRequest)),
    Default(2000, Field("response_partition_limit", I32)),
    Option("cursor", DescribeTopicPartitionsRequest_Cursor)>>)

DescribeTopicPartitionsResponse_DescribeTopicPartitionsResponsePartition == Struct(0, <<
    Field("error_code", I16), Field("partition_index", I32), Field("leader_id", I32),
    Default(-1, Field("leader_epoch", I32)), Field("replica_nodes", Arr(I32)),
    Field("isr_nodes", Arr(I32)), Option("eligible_leader_replicas", Arr(I32)),
    Option("last_known_elr", Arr(I32)), Field("offline_replicas", Arr(I32))>>)

DescribeTopicPartitionsResponse_DescribeTopicPartitionsResponseTopic == Struct(0, <<
    Field("error_code", I16), OptionSome("name", Str), Field("topic_id", Uuid),
    Field("is_internal", Bool),
    Field("partitions", Arr(DescribeTopicPartitionsResponse_DescribeTopicPartitionsResponsePartition)),
    Default(MinI32, Field("topic_authorized_operations", I32))>>)

DescribeTopicPartitionsResponse_Cursor == Struct(0, <<
    Field("topic_name", Str), Field("partition_index", I32)>>)

DescribeTopicPartitionsResponse == Struct(0, <<
    Field("throttle_time_ms", I32),
    Field("topics", Arr(DescribeTopicPartitionsResponse_DescribeTopicPartitionsResponseTopic)),
    Option("next_cursor", DescribeTopicPartitionsResponse_Cursor)>>)

ApiVersionsRequest == Struct(3, <<
    Since(3, Field("client_software_name", Str)),
    Since(3, Field("client_software_version", Str))>>)

ApiVersionsResponse_ApiVersion == Struct(3, <<
    Field("api_key", I16), Field("min_version", I16), Field("max_version", I16)>>)

ApiVersionsResponse_SupportedFeatureKey == Struct(3, <<
    Since(3, Field("name", Str)), Since(3, Field("min_version", I16)),
    Since(3, Field("max_version", I16))>>)

ApiVersionsResponse_FinalizedFeatureKey == Struct(3, <<
    Since(3, Field("name", Str)), Since(3, Field("max_version_level", I16)),
    Since(3, Field("min_version_level", I16))>>)

ApiVersionsResponse == Struct(3, <<
    Field("error_code", I16), Field("api_keys", Arr(ApiVersionsResponse_ApiVersion)),
    Since(1, Field("throttle_time_ms", I32)),
    Tagged(0, Since(3, Field("supported_features", Arr(ApiVersionsResponse_SupportedFeatureKey)))),
    Tagged(1, Since(3, Default(-1, Field("finalized_features_epoch", I64)))),
    Tagged(2, Since(3, Field("finalized_features", Arr(ApiVersionsResponse_FinalizedFeatureKey)))),
    Tagged(3, Since(3, Field("zk_migration_ready", Bool)))>>)

SaslHandshakeRequest == Struct(Forever, <<Field("mechanism", Str)>>)

SaslHandshakeResponse == Struct(Forever, <<
    Field("error_code", I16), Field("mechanisms", Arr(Str))>>)

SaslAuthenticateRequest == Struct(2, <<Field("auth_bytes", Bytes)>>)

SaslAuthenticateResponse == Struct(2, <<
    Field("error_code", I16), OptionSome("error_message", Str), Field("auth_bytes", Bytes),
    Since(1, Field("session_lifetime_ms", I64))>>)

=============================================================================
